---- MODULE Spec2Model ----
(***************************************************************************)
(* Fetch-strategy-and-cache subsystem of shadcn-svelte-mcp:                *)
(*   services/cache-manager.ts  (two-tier cache: memory LRU + .cache dir)  *)
(*   services/doc-fetcher       (fetchUrl and its three strategies)        *)
(* JavaScript strings are sequences of one-character strings.              *)
(***************************************************************************)
EXTENDS Integers, Sequences, FiniteSets, TLC

(***************************************************************************)
(* Bounds of the model                                                     *)
(***************************************************************************)
\* Date.now() advances in whole days, from day 0 up to this day.
MaxDays == 4
\* Longest input (in tokens) of the unescape specification.
MaxTokens == 3
\* Keys beyond the capacity of the memory tier in the cache-manager
\* specification.
MaxExtraKeys == 2

(***************************************************************************)
(* Strings                                                                 *)
(***************************************************************************)
\* The JavaScript value undefined (no string of the model is this one).
Undefined == <<"undefined">>
\* The JavaScript value null returned by a strategy or by getFromCache.
Null == [null |-> TRUE]

RECURSIVE Concat(_)
Concat(ws) == IF ws = <<>> THEN <<>> ELSE Head(ws) \o Concat(Tail(ws))

\* String.prototype.includes
Includes(s, pat) ==
  \E i \in 1..(Len(s) - Len(pat) + 1) : SubSeq(s, i, i + Len(pat) - 1) = pat

\* String.prototype.endsWith
EndsWith(s, suf) ==
  /\ Len(s) >= Len(suf)
  /\ SubSeq(s, Len(s) - Len(suf) + 1, Len(s)) = suf

StartsAt(s, i, pat) ==
  /\ i + Len(pat) - 1 <= Len(s)
  /\ SubSeq(s, i, i + Len(pat) - 1) = pat

\* String.prototype.replace(/pat/g, rep): leftmost matches, left to right,
\* never rescanning the replacement.
RECURSIVE ReplaceFrom(_, _, _, _)
ReplaceFrom(s, i, pat, rep) ==
  IF i > Len(s) THEN <<>>
  ELSE IF StartsAt(s, i, pat)
       THEN rep \o ReplaceFrom(s, i + Len(pat), pat, rep)
       ELSE <<s[i]>> \o ReplaceFrom(s, i + 1, pat, rep)

ReplaceAll(s, pat, rep) == ReplaceFrom(s, 1, pat, rep)

WhiteSpace == {" ", "\n", "\t"}

\* String.prototype.trim
RECURSIVE TrimLeft(_)
TrimLeft(s) ==
  IF s # <<>> /\ Head(s) \in WhiteSpace THEN TrimLeft(Tail(s)) ELSE s

RECURSIVE TrimRight(_)
TrimRight(s) ==
  IF s # <<>> /\ s[Len(s)] \in WhiteSpace
  THEN TrimRight(SubSeq(s, 1, Len(s) - 1)) ELSE s

Trim(s) == TrimRight(TrimLeft(s))

BackSlash == "\\"
DQuote == "\""
SQuote == "'"
\* the backquote character (written out: the lexer does not take it in a string)
BackTick == "backtick"
Apos == <<"&", "a", "p", "o", "s", ";">>

\* an unescape that writes the entity as an escaped quote
unescapeMarkdownEscapedApos(markdown) ==
  ReplaceAll(
    ReplaceAll(
      ReplaceAll(markdown, <<BackSlash, DQuote>>, <<DQuote>>),
      <<BackSlash, SQuote>>, <<SQuote>>),
    Apos, <<BackSlash, SQuote>>)

\* unescapeMarkdown: \" -> ", then \' -> ', then &apos; -> '
unescapeMarkdown(markdown) ==
  ReplaceAll(
    ReplaceAll(
      ReplaceAll(markdown, <<BackSlash, DQuote>>, <<DQuote>>),
      <<BackSlash, SQuote>>, <<SQuote>>),
    Apos, <<SQuote>>)

(***************************************************************************)
(* URLs                                                                    *)
(***************************************************************************)
W_docs == <<"/", "d", "o", "c", "s">>
W_components == <<"/", "c", "o", "m", "p", "o", "n", "e", "n", "t", "s">>
W_blocks == <<"/", "b", "l", "o", "c", "k", "s">>
W_charts == <<"/", "c", "h", "a", "r", "t", "s">>
W_themes == <<"/", "t", "h", "e", "m", "e", "s">>
W_colors == <<"/", "c", "o", "l", "o", "r", "s">>
W_x == <<"/", "x">>
DotMd == <<".", "m", "d">>

U_component == W_docs \o W_components \o W_x
U_doc == W_docs \o W_x
U_block == W_blocks \o W_x
U_chart == W_charts \o W_x
U_theme == W_themes
U_color == W_colors
U_other == W_x
\* a component page whose name is also a script-rendered marker
U_componentChart == W_docs \o W_components \o W_charts
\* the docs marker after the blocks marker
U_blockDoc == W_blocks \o W_docs \o W_x
\* "/docs" without the trailing slash of the "/docs/" marker
U_docsRoot == W_docs
\* the components index page that discoverComponents fetches
U_componentsIndex == W_docs \o W_components

\* two URLs whose 32-bit hashes are equal
U_docsAm == W_docs \o <<"/", "a", "m">>
U_docsCSlash == W_docs \o <<"/", "c", "/">>
\* two URLs whose 32-bit hashes differ only in sign
U_saXrc == <<"/", "s", "a", "/", "x", "r", "c">>
U_sauaSlash == <<"/", "s", "a", "u", "a", "/", "/">>

UrlShapes ==
  { U_component, U_doc, U_block, U_chart, U_theme, U_color, U_other,
    U_componentChart, U_blockDoc, U_docsRoot, U_componentsIndex,
    U_docsAm, U_docsCSlash, U_saXrc, U_sauaSlash }

\* the URLs asked for in the runs of the cache-and-fetch specification
FetchedUrls == { U_doc, U_chart }

\* String.prototype.charCodeAt for the characters of the model's URLs and
\* list keys
charCodeAt ==
  "/" :> 47 @@ "." :> 46 @@ "a" :> 97 @@ "b" :> 98 @@ "c" :> 99 @@
  "d" :> 100 @@ "e" :> 101 @@ "h" :> 104 @@ "k" :> 107 @@ "l" :> 108 @@
  "m" :> 109 @@ "n" :> 110 @@ "o" :> 111 @@ "p" :> 112 @@ "r" :> 114 @@
  "s" :> 115 @@ "t" :> 116 @@ "x" :> 120 @@ "-" :> 45 @@ "i" :> 105 @@
  "u" :> 117

\* One round of the hash loop on a 32-bit word held as two 16-bit halves:
\* hash = ((hash << 5) - hash + char) & 0xFFFFFFFF, i.e. hash * 31 + char.
HashStep(h, char) ==
  LET lo == h[2] * 31 + char
      hi == h[1] * 31 + (lo \div 65536)
  IN  <<hi % 65536, lo % 65536>>

RECURSIVE HashFrom(_, _, _)
HashFrom(url, i, h) ==
  IF i > Len(url) THEN h
  ELSE HashFrom(url, i + 1, HashStep(h, charCodeAt[url[i]]))

\* Math.abs of the signed 32-bit value of the word <<hi, lo>>
MathAbs(h) ==
  IF h[1] < 32768 THEN h
  ELSE IF h[2] = 0 THEN <<65536 - h[1], 0>>
       ELSE <<65535 - h[1], 65536 - h[2]>>

\* getCacheKey: the file name cache_<abs(hash)>.json, held as the two
\* 16-bit halves of abs(hash).
getCacheKey(url) == MathAbs(HashFrom(url, 1, <<0, 0>>))

\* isJsHeavyPage with the "/colors" marker left out
isJsHeavyNoColors(url) ==
  \/ Includes(url, W_charts)
  \/ Includes(url, W_themes)
  \/ Includes(url, W_blocks)

\* fetchUrl: isJsHeavyPage
isJsHeavyPage(url) ==
  \/ Includes(url, W_charts)
  \/ Includes(url, W_themes)
  \/ Includes(url, W_blocks)
  \/ Includes(url, W_colors)

\* "Determine content type from URL" of fetchHtmlAndConvert and of the
\* Crawlee request handler (the two copies are identical)
TypeFromUrl(url) ==
  IF Includes(url, W_docs \o W_components \o <<"/">>) THEN "component"
  ELSE IF Includes(url, W_docs \o <<"/">>) THEN "doc"
  ELSE IF Includes(url, W_blocks) THEN "block"
  ELSE IF Includes(url, W_charts) THEN "chart"
  ELSE IF Includes(url, W_themes) THEN "theme"
  ELSE "unknown"

(***************************************************************************)
(* Program constants                                                       *)
(***************************************************************************)
\* one day of Date.now(), in milliseconds (the granularity of the model)
DAY_MS == 24 * 60 * 60 * 1000
\* cache-manager.ts: CACHE_TTL, 3 days in milliseconds
CACHE_TTL == 3 * 24 * 60 * 60 * 1000
\* doc-fetcher: FETCH_TIMEOUT, in milliseconds
FETCH_TIMEOUT == 30000
\* cache-manager.ts: IN_MEMORY_CACHE_SIZE
IN_MEMORY_CACHE_SIZE == 50

(***************************************************************************)
(* What the remote site and the libraries answer                           *)
(***************************************************************************)
\* bodies the .md endpoint may answer with (status 200)
Body_empty == <<>>
Body_heading == <<"#", " ", "T">>
MdBodies == { Body_empty, Body_heading }

\* main-content regions cheerio may extract from a page
Html_space == <<" ">>
Html_emptyTag == <<"<", "p", ">">>
Html_text == <<"<", "p", ">", "a">>
HtmlContents == { Html_space, Html_emptyTag, Html_text }

\* turndownService.turndown on the regions above: an element without text
\* converts to the empty string
turndown(content) ==
  IF content = Html_text THEN <<"a">> ELSE <<>>

\* extractMetadata: every field but url is optional; here the page has a title
\* exactly when it has text
extractMetadata(content, url) ==
  [ title |-> IF content = Html_text THEN <<"T">> ELSE Undefined,
    description |-> Undefined,
    author |-> Undefined,
    ogImage |-> Undefined,
    url |-> url,
    keywords |-> Undefined ]

\* the fenced code blocks found in the converted Markdown; no page of the
\* model holds a fence, so the list is empty and the field is undefined
codeBlocksOf(markdown) ==
  IF Includes(markdown, <<BackTick, BackTick, BackTick>>)
  THEN <<"codeBlocks">> ELSE Undefined

MdOutcomes ==
  [kind : {"ok"}, body : MdBodies] \cup { [kind |-> "notOk"], [kind |-> "throw"] }

HtmlOutcomes ==
  [kind : {"ok"}, content : HtmlContents]
    \cup { [kind |-> "notOk"], [kind |-> "throw"] }

CrawleeOutcomes ==
  [kind : {"page"}, content : HtmlContents]
    \cup { [kind |-> "timeout"], [kind |-> "failedRequest"],
           [kind |-> "runThrows"] }

(***************************************************************************)
(* The strategies                                                          *)
(***************************************************************************)
LineEnd(s, i) ==
  IF \E j \in i..Len(s) : s[j] = "\n"
  THEN CHOOSE j \in i..Len(s) : s[j] = "\n" /\ \A k \in i..(j - 1) : s[k] # "\n"
  ELSE Len(s) + 1

\* markdown.match(/^#\s+(.+)$/m) at line start i: the captured group, or
\* Undefined when the heading does not match there
HeadingAt(s, i) ==
  IF ~(i <= Len(s) /\ s[i] = "#" /\ (i = 1 \/ s[i - 1] = "\n")) THEN Undefined
  ELSE LET rest == { k \in (i + 1)..Len(s) : s[k] \notin WhiteSpace }
           first == IF rest = {} THEN Len(s) + 1
                    ELSE CHOOSE k \in rest : \A m \in rest : k <= m
           back == { k \in (i + 2)..Len(s) : s[k] # "\n" }
       IN  IF first = i + 1 THEN Undefined
           ELSE IF first <= Len(s) THEN SubSeq(s, first, LineEnd(s, first) - 1)
           ELSE IF back = {} THEN Undefined
           ELSE LET p == CHOOSE k \in back : \A m \in back : m <= k
                IN  <<s[p]>>

titleOf(markdown) ==
  LET hits == { i \in 1..Len(markdown) : HeadingAt(markdown, i) # Undefined }
  IN  IF hits = {} THEN Undefined
      ELSE HeadingAt(markdown, CHOOSE i \in hits : \A j \in hits : i <= j)

mdUrlOf(url) == IF EndsWith(url, DotMd) THEN url ELSE url \o DotMd

\* tryFetchMarkdown: the result on response.ok, null otherwise
tryFetchMarkdown(url, outcome) ==
  IF outcome.kind = "ok"
  THEN LET markdown == unescapeMarkdown(outcome.body)
       IN  [ success |-> TRUE,
             content |-> markdown,
             markdown |-> markdown,
             metadata |-> [title |-> titleOf(markdown), url |-> mdUrlOf(url)],
             type |-> "component",
             source |-> "md" ]
  ELSE Null

Failure(message) == [success |-> FALSE, error |-> message]

\* the success object built from an extracted region, by fetchHtmlAndConvert
\* and by the Crawlee request handler
Extracted(url, content, source) ==
  LET markdown == turndown(content)
  IN  [ success |-> TRUE,
        content |-> markdown,
        markdown |-> markdown,
        html |-> content,
        metadata |-> extractMetadata(content, url),
        type |-> TypeFromUrl(url),
        codeBlocks |-> codeBlocksOf(markdown),
        source |-> source ]

\* fetchWithTimeout(url, timeout): the request is aborted when no response
\* has come after timeout ms, and fetch then throws; took is the time the
\* server takes, outcome what it answers
fetchWithTimeout(took, timeout, outcome) ==
  IF took >= timeout THEN [kind |-> "throw"] ELSE outcome

\* fetchHtmlAndConvert
fetchHtmlAndConvert(url, outcome) ==
  IF outcome.kind = "notOk" THEN Failure("HTTP 404: Not Found")
  ELSE IF outcome.kind = "throw" THEN Failure("This operation was aborted")
  ELSE IF Len(Trim(outcome.content)) = 0
       THEN Failure("Could not find main content in HTML")
       ELSE Extracted(url, outcome.content, "html")

\* tryFetchWithCrawlee
tryFetchWithCrawlee(url, outcome) ==
  IF outcome.kind = "runThrows" THEN Null
  ELSE IF outcome.kind = "failedRequest" THEN Failure("Navigation failed")
  ELSE IF outcome.kind = "timeout" THEN Failure("Timeout 45000ms exceeded")
  ELSE IF Len(Trim(outcome.content)) = 0
       THEN Failure("Could not find main content in HTML")
       ELSE Extracted(url, outcome.content, "crawlee")

(***************************************************************************)
(* The cache                                                               *)
(***************************************************************************)
\* the properties JSON.stringify leaves out: those whose value is undefined
OptionalKeys ==
  { "title", "description", "author", "ogImage", "keywords", "codeBlocks" }

Stringified(obj) ==
  [ k \in { g \in DOMAIN obj : ~(g \in OptionalKeys /\ obj[g] = Undefined) }
      |-> obj[k] ]

\* a serialisation that loses the metadata of the result
JsonRoundTripNoMetadata(data) ==
  [ k \in DOMAIN data \ {"metadata"} |-> data[k] ]

\* JSON.parse(JSON.stringify(data)) of a FetchResult
JsonRoundTrip(data) ==
  LET top == Stringified(data)
  IN  IF "metadata" \in DOMAIN top
      THEN [top EXCEPT !.metadata = Stringified(top.metadata)]
      ELSE top

\* the text saveToCache writes for an entry, as JSON.parse reads it back
FileOf(entry) ==
  [ data |-> JsonRoundTrip(entry.data),
    timestamp |-> entry.timestamp,
    url |-> entry.url ]

\* accessOrder.splice(accessOrder.indexOf(key), 1)
RECURSIVE RemoveFirst(_, _)
RemoveFirst(order, key) ==
  IF order = <<>> THEN <<>>
  ELSE IF Head(order) = key THEN Tail(order)
  ELSE <<Head(order)>> \o RemoveFirst(Tail(order), key)

MapSet(map, key, value) ==
  [ k \in DOMAIN map \cup {key} |-> IF k = key THEN value ELSE map[k] ]

MapDelete(map, key) == [ k \in DOMAIN map \ {key} |-> map[k] ]

\* an addToMemoryCache that pushes the key without removing it first
addToMemoryCacheNoSplice(mem, order, key, entry) ==
  LET order1 == Append(order, key)
      mem1 == MapSet(mem, key, entry)
  IN  IF Cardinality(DOMAIN mem1) > IN_MEMORY_CACHE_SIZE /\ order1 # <<>>
      THEN [mem |-> MapDelete(mem1, Head(order1)), order |-> Tail(order1)]
      ELSE [mem |-> mem1, order |-> order1]

\* an addToMemoryCache that evicts the most recently used key
addToMemoryCacheEvictNewest(mem, order, key, entry) ==
  LET order1 == Append(RemoveFirst(order, key), key)
      mem1 == MapSet(mem, key, entry)
  IN  IF Cardinality(DOMAIN mem1) > IN_MEMORY_CACHE_SIZE /\ order1 # <<>>
      THEN [mem |-> MapDelete(mem1, order1[Len(order1)]),
            order |-> SubSeq(order1, 1, Len(order1) - 1)]
      ELSE [mem |-> mem1, order |-> order1]

\* an addToMemoryCache that puts the key first in the LRU list
addToMemoryCacheAtFront(mem, order, key, entry) ==
  LET order1 == <<key>> \o RemoveFirst(order, key)
      mem1 == MapSet(mem, key, entry)
  IN  IF Cardinality(DOMAIN mem1) > IN_MEMORY_CACHE_SIZE /\ order1 # <<>>
      THEN [mem |-> MapDelete(mem1, Head(order1)), order |-> Tail(order1)]
      ELSE [mem |-> mem1, order |-> order1]

\* addToMemoryCache: the memory tier and the LRU list afterwards
addToMemoryCache(mem, order, key, entry) ==
  LET order1 == Append(RemoveFirst(order, key), key)
      mem1 == MapSet(mem, key, entry)
  IN  IF Cardinality(DOMAIN mem1) > IN_MEMORY_CACHE_SIZE /\ order1 # <<>>
      THEN [mem |-> MapDelete(mem1, Head(order1)), order |-> Tail(order1)]
      ELSE [mem |-> mem1, order |-> order1]

\* an age test that finds every entry fresh
IsFreshAlways(timestamp, t) == TRUE

\* the age test of getFromCache: age < CACHE_TTL
IsFresh(timestamp, t) == t - timestamp < CACHE_TTL

\* an age test of cleanupCache that keeps an entry of age CACHE_TTL
IsExpiredStrictly(timestamp, t) == t - timestamp > CACHE_TTL

\* the age test of cleanupCache: age >= CACHE_TTL
IsExpired(timestamp, t) == t - timestamp >= CACHE_TTL

EmptyMap == [ k \in {} |-> Null ]

\* the record of the saves once a clearCache begins
Cleared(saves) ==
  [ u \in DOMAIN saves |->
      IF saves[u] = Null THEN Null ELSE [saves[u] EXCEPT !.noClear = FALSE] ]

(***************************************************************************)
(* State                                                                   *)
(***************************************************************************)
VARIABLES
  now,          \* Date.now()
  memoryCache,  \* key -> CacheEntry
  accessOrder,  \* keys, least recently used first
  disk,         \* the .cache directory: file name (key) -> parsed file
  urls,         \* the URLs the callers of this run ask for
  active,       \* the callers of this run
  calls,        \* caller -> its fetchUrl call
  sweep,        \* the cleanupCache pass of the hourly timer
  clr,          \* the clearCache call
  lastSaved,    \* url -> the latest saveToCache(url, data) that returned:
                \* its data, its time, and whether no clearCache was in
                \* flight when it returned and none has begun since
  pure,         \* the input and outputs of the unescape specification
  lru,          \* the cache-manager specification: the keys of the memory
                \* tier in the order of their last use, the last call
                \* ("save" or "get"), its key and what a lookup returned
  net,          \* the time the .md request and the page request of the run
                \* take to answer
  disc          \* the discovery call: its position, its function, what it
                \* returns, and per function whether its last remote fetch
                \* failed

vars ==
  << now, memoryCache, accessOrder, disk, urls, active, calls, sweep, clr,
     lastSaved, pure, lru, net, disc >>

\* what no step of a run of the cache and the fetcher changes
env == << urls, active, pure, lru, net, disc >>

NoPure == [ step |-> 0, text |-> <<>>, once |-> <<>>, twice |-> <<>> ]

\* the time each HTTP request of a run takes to answer, in ms; 0 where the
\* time plays no part
NoNet == [ md |-> 0, html |-> 0 ]

\* the discovery functions: discoverDocs, discoverComponents and
\* discoverBitsUIComponents
Sites == { "docs", "components", "bits" }

IdleDiscover ==
  [ pc |-> "idle", site |-> "none", result |-> Null,
    failed |-> [ s \in Sites |-> FALSE ] ]

NoLru == [ recency |-> <<>>, op |-> "none", key |-> <<>>, got |-> Null ]

Callers == {1, 2}

\* the sets of URLs a run may ask for
UrlPools == { {u} : u \in FetchedUrls }
ShapePools == { {u} : u \in UrlShapes }

IdleCall ==
  [ pc |-> "idle", url |-> <<>>, useCache |-> FALSE, tried |-> <<>>,
    answer |-> Null, entry |-> Null, cached |-> Null, result |-> Null,
    met |-> "none", timeout |-> FETCH_TIMEOUT ]

IdleSweep == [ pc |-> "idle", files |-> {}, file |-> <<>> ]
IdleClear == [ pc |-> "idle", files |-> {} ]

Init ==
  /\ now = 0
  /\ memoryCache = EmptyMap
  /\ accessOrder = <<>>
  /\ disk = EmptyMap
  /\ urls \in UrlPools
  /\ active = {1}
  /\ calls = [ c \in Callers |-> IdleCall ]
  /\ net = NoNet
  /\ disc = IdleDiscover
  /\ sweep = IdleSweep
  /\ clr = IdleClear
  /\ lastSaved = [ u \in UrlShapes |-> Null ]
  /\ pure = NoPure
  /\ lru = NoLru

\* a call has returned and its caller has not yet resumed: nothing but the
\* caller's continuation runs in between (promise continuations are
\* microtasks; timers and I/O completions are not)
Returning == \E c \in Callers : calls[c].pc = "done"

(***************************************************************************)
(* fetchUrl                                                                *)
(***************************************************************************)
\* what a strategy returned: null, a success:false result, a success:true
\* result
OutOf(r) ==
  IF r = Null THEN "null" ELSE IF r.success THEN "success" ELSE "failed"

\* the call invokes strategy s and awaits it; tried is the record of the
\* strategies of the call, in the order of their invocation, each with
\* the kind of its answer
Invoke(call, s) ==
  [ call EXCEPT !.tried = Append(@, [strategy |-> s, out |-> "pending"]),
                !.pc = s ]

\* the awaited strategy has answered r; answer keeps a success:true result
\* as the strategy returned it
Answered(call, r) ==
  [ call EXCEPT !.tried = [@ EXCEPT ![Len(@)].out = OutOf(r)],
                !.answer = IF OutOf(r) = "success" THEN r ELSE @ ]

\* the cached payload returned without the source being replaced
cacheHitResultKeepSource(cached) == cached

\* fetchUrl line 426: { ...cached, source: "cache" }
cacheHitResult(cached) ==
  [ k \in DOMAIN cached \cup {"source"} |->
      IF k = "source" THEN "cache" ELSE cached[k] ]

\* getFromCache returned data, and fetchUrl returns at line 426
Hit(call, data) ==
  [ call EXCEPT !.cached = data, !.result = cacheHitResult(data),
                !.pc = "done" ]

\* the direct result is never taken, so the chain goes on after it
mdAcceptedNever(r) == FALSE

\* fetchUrl line 432: if (mdResult)
mdAccepted(r) == r # Null

\* a fetchUrl that takes whatever result the browser strategy gives
crawleeAcceptedAnyResult(r) == r # Null

\* fetchUrl line 450: if (crawleeResult && crawleeResult.success)
crawleeAccepted(r) == r # Null /\ r.success

\* an html result saved whatever useCache says
htmlSavedAnySuccess(r, useCache) == r.success

\* fetchUrl line 463: if (htmlResult.success && useCache)

htmlSaved(r, useCache) == r.success /\ useCache

\* fetchUrl returns r, after saveToCache(url, r) when save holds; the
\* synchronous part of saveToCache runs here, its writeFile is awaited
Finish(c, call, r, save) ==
  IF save
  THEN LET key == getCacheKey(call.url)
           entry == [data |-> r, timestamp |-> now, url |-> call.url]
           am == addToMemoryCache(memoryCache, accessOrder, key, entry)
       IN  /\ memoryCache' = am.mem
           /\ accessOrder' = am.order
           /\ UNCHANGED lastSaved
           /\ calls' = [calls EXCEPT ![c] =
                          [call EXCEPT !.entry = entry, !.pc = "writeFile"]]
  ELSE /\ calls' = [calls EXCEPT ![c] = [call EXCEPT !.result = r, !.pc = "done"]]
       /\ UNCHANGED <<memoryCache, accessOrder, lastSaved>>

\* fetchUrl(u, {useCache: uc}) up to its first await: with the cache
\* enabled, the memory-tier part of getFromCache
StartFetch(c, u, uc) ==
  /\ c \in active
  /\ calls[c].pc = "idle"
  /\ u \in urls
  /\ LET key == getCacheKey(u)
         call == [IdleCall EXCEPT !.url = u, !.useCache = uc]
     IN  IF ~uc
         THEN /\ calls' = [calls EXCEPT ![c] = Invoke(call, "md")]
              /\ UNCHANGED <<memoryCache, accessOrder>>
         ELSE IF key \in DOMAIN memoryCache
         THEN IF IsFresh(memoryCache[key].timestamp, now)
              THEN /\ accessOrder' = Append(RemoveFirst(accessOrder, key), key)
                   /\ calls' = [calls EXCEPT ![c] = Hit(call, memoryCache[key].data)]
                   /\ UNCHANGED memoryCache
              ELSE /\ memoryCache' = MapDelete(memoryCache, key)
                   /\ accessOrder' = RemoveFirst(accessOrder, key)
                   /\ calls' = [calls EXCEPT ![c] = [call EXCEPT !.pc = "readFile"]]
         ELSE /\ calls' = [calls EXCEPT ![c] = [call EXCEPT !.pc = "readFile"]]
              /\ UNCHANGED <<memoryCache, accessOrder>>
  /\ UNCHANGED <<now, disk, env, sweep, clr, lastSaved>>

\* a getFromCache that stamps the entry it promotes with the time of the read
ReadFileDoneRefreshes(c) ==
  /\ calls[c].pc = "readFile"
  /\ LET call == calls[c]
         key == getCacheKey(call.url)
     IN  IF key \notin DOMAIN disk
         THEN /\ calls' = [calls EXCEPT ![c] = Invoke(call, "md")]
              /\ UNCHANGED <<memoryCache, accessOrder>>
         ELSE IF IsFresh(disk[key].timestamp, now)
         THEN LET am == addToMemoryCache(memoryCache, accessOrder, key,
                                         [disk[key] EXCEPT !.timestamp = now])
              IN  /\ memoryCache' = am.mem
                  /\ accessOrder' = am.order
                  /\ calls' = [calls EXCEPT ![c] = Hit(call, disk[key].data)]
         ELSE /\ calls' = [calls EXCEPT ![c] = [call EXCEPT !.pc = "unlink"]]
              /\ UNCHANGED <<memoryCache, accessOrder>>
  /\ UNCHANGED <<now, disk, env, sweep, clr, lastSaved>>

\* getFromCache: fs.readFile completes (or fails with ENOENT)
ReadFileDone(c) ==
  /\ calls[c].pc = "readFile"
  /\ LET call == calls[c]
         key == getCacheKey(call.url)
     IN  IF key \notin DOMAIN disk
         THEN /\ calls' = [calls EXCEPT ![c] = Invoke(call, "md")]
              /\ UNCHANGED <<memoryCache, accessOrder>>
         ELSE IF IsFresh(disk[key].timestamp, now)
         THEN LET am == addToMemoryCache(memoryCache, accessOrder, key, disk[key])
              IN  /\ memoryCache' = am.mem
                  /\ accessOrder' = am.order
                  /\ calls' = [calls EXCEPT ![c] = Hit(call, disk[key].data)]
         ELSE /\ calls' = [calls EXCEPT ![c] = [call EXCEPT !.pc = "unlink"]]
              /\ UNCHANGED <<memoryCache, accessOrder>>
  /\ UNCHANGED <<now, disk, env, sweep, clr, lastSaved>>

\* getFromCache: fs.unlink of the expired file completes (or fails with
\* ENOENT, which the catch swallows); the lookup is a miss
UnlinkDone(c) ==
  /\ calls[c].pc = "unlink"
  /\ disk' = MapDelete(disk, getCacheKey(calls[c].url))
  /\ calls' = [calls EXCEPT ![c] = Invoke(calls[c], "md")]
  /\ UNCHANGED <<now, memoryCache, accessOrder, env, sweep, clr, lastSaved>>

\* Strategy 1 answers
MdResponds(c, outcome) ==
  /\ calls[c].pc = "md"
  /\ LET r == tryFetchMarkdown(calls[c].url, outcome)
         call == Answered(calls[c], r)
     IN  IF mdAccepted(r)
         THEN Finish(c, call, r, call.useCache)
         ELSE /\ calls' = [calls EXCEPT ![c] =
                  Invoke(call, IF isJsHeavyPage(call.url) THEN "crawlee" ELSE "html")]
              /\ UNCHANGED <<memoryCache, accessOrder, lastSaved>>
  /\ UNCHANGED <<now, disk, env, sweep, clr>>

\* Strategy 2 answers; met keeps what the crawler met: a rendered page, a
\* page load timeout, a failed request, or a throw of crawler.run
CrawleeResponds(c, outcome) ==
  /\ calls[c].pc = "crawlee"
  /\ LET r == tryFetchWithCrawlee(calls[c].url, outcome)
         call == [Answered(calls[c], r) EXCEPT !.met = outcome.kind]
     IN  IF crawleeAccepted(r)
         THEN Finish(c, call, r, call.useCache)
         ELSE /\ calls' = [calls EXCEPT ![c] = Invoke(call, "html")]
              /\ UNCHANGED <<memoryCache, accessOrder, lastSaved>>
  /\ UNCHANGED <<now, disk, env, sweep, clr>>

\* a fetchUrl that tries the html strategy again when it has failed
HtmlRespondsRetries(c, outcome) ==
  /\ calls[c].pc = "html"
  /\ LET r == fetchHtmlAndConvert(calls[c].url, outcome)
         call == Answered(calls[c], r)
     IN  IF r.success
         THEN Finish(c, call, r, call.useCache)
         ELSE /\ calls' = [calls EXCEPT ![c] = Invoke(call, "html")]
              /\ UNCHANGED <<memoryCache, accessOrder, lastSaved>>
  /\ UNCHANGED <<now, disk, env, sweep, clr>>

\* Strategy 3 answers
HtmlResponds(c, outcome) ==
  /\ calls[c].pc = "html"
  /\ LET r == fetchHtmlAndConvert(calls[c].url, outcome)
         call == Answered(calls[c], r)
     IN  Finish(c, call, r, htmlSaved(r, call.useCache))
  /\ UNCHANGED <<now, disk, env, sweep, clr>>

\* a writeFile that leaves a file that is already there as it is
WriteFileDoneKeepsExisting(c) ==
  /\ calls[c].pc = "writeFile"
  /\ LET call == calls[c]
     IN  /\ disk' = IF getCacheKey(call.url) \in DOMAIN disk THEN disk
                    ELSE MapSet(disk, getCacheKey(call.url), FileOf(call.entry))
         /\ calls' = [calls EXCEPT ![c] =
                        [call EXCEPT !.result = call.entry.data, !.pc = "done"]]
         /\ lastSaved' = [lastSaved EXCEPT ![call.url] =
                            [data |-> call.entry.data,
                             at |-> call.entry.timestamp,
                             noClear |-> clr.pc = "idle"]]
  /\ UNCHANGED <<now, memoryCache, accessOrder, env, sweep, clr>>

\* saveToCache: fs.writeFile completes; fetchUrl returns the result
WriteFileDone(c) ==
  /\ calls[c].pc = "writeFile"
  /\ LET call == calls[c]
     IN  /\ disk' = MapSet(disk, getCacheKey(call.url), FileOf(call.entry))
         /\ calls' = [calls EXCEPT ![c] =
                        [call EXCEPT !.result = call.entry.data, !.pc = "done"]]
         /\ lastSaved' = [lastSaved EXCEPT ![call.url] =
                            [data |-> call.entry.data,
                             at |-> call.entry.timestamp,
                             noClear |-> clr.pc = "idle"]]
  /\ UNCHANGED <<now, memoryCache, accessOrder, env, sweep, clr>>

\* the caller takes the result
Return(c) ==
  /\ calls[c].pc = "done"
  /\ calls' = [calls EXCEPT ![c] = IdleCall]
  /\ UNCHANGED <<now, memoryCache, accessOrder, disk, env, sweep, clr, lastSaved>>

(***************************************************************************)
(* Time, restart, clearCache, cleanupCache                                 *)
(***************************************************************************)
Tick ==
  /\ ~Returning
  /\ now < MaxDays * DAY_MS
  /\ now' = now + DAY_MS
  /\ UNCHANGED <<memoryCache, accessOrder, disk, env, calls, sweep, clr, lastSaved>>

\* the process restarts: the module state is built anew, the files stay
Restart ==
  /\ ~Returning
  /\ memoryCache' = EmptyMap
  /\ accessOrder' = <<>>
  /\ calls' = [ c \in Callers |-> IdleCall ]
  /\ sweep' = IdleSweep
  /\ clr' = IdleClear
  /\ UNCHANGED <<now, disk, env, lastSaved>>

\* a clearCache that leaves the memory tier as it is
ClearStartKeepsMemory ==
  /\ ~Returning
  /\ clr.pc = "idle"
  /\ clr' = [pc |-> "readdir", files |-> {}]
  /\ lastSaved' = Cleared(lastSaved)
  /\ UNCHANGED <<now, memoryCache, accessOrder, disk, env, calls, sweep>>

\* clearCache up to its await of fs.readdir
ClearStart ==
  /\ ~Returning
  /\ clr.pc = "idle"
  /\ memoryCache' = EmptyMap
  /\ accessOrder' = <<>>
  /\ clr' = [pc |-> "readdir", files |-> {}]
  /\ lastSaved' = Cleared(lastSaved)
  /\ UNCHANGED <<now, disk, env, calls, sweep>>

\* clearCache: readdir answers; one unlink per file is issued
ClearReaddir ==
  /\ ~Returning
  /\ clr.pc = "readdir"
  /\ clr' = IF DOMAIN disk = {} THEN IdleClear
            ELSE [pc |-> "unlinks", files |-> DOMAIN disk]
  /\ UNCHANGED <<now, memoryCache, accessOrder, disk, env, calls, sweep, lastSaved>>

\* clearCache: one of the issued unlinks completes
ClearUnlink(f) ==
  /\ ~Returning
  /\ clr.pc = "unlinks"
  /\ f \in clr.files
  /\ disk' = MapDelete(disk, f)
  /\ clr' = IF clr.files = {f} THEN IdleClear
            ELSE [clr EXCEPT !.files = @ \ {f}]
  /\ UNCHANGED <<now, memoryCache, accessOrder, env, calls, sweep, lastSaved>>

\* cleanupCache: the timer fires and fs.readdir answers (nothing of
\* cleanupCache runs before its readdir)
SweepStart ==
  /\ ~Returning
  /\ sweep.pc = "idle"
  /\ DOMAIN disk # {}
  /\ sweep' = [IdleSweep EXCEPT !.pc = "loop", !.files = DOMAIN disk]
  /\ UNCHANGED <<now, memoryCache, accessOrder, disk, env, calls, clr, lastSaved>>

\* the pass after file f is dealt with
SweepAfter(f) ==
  IF sweep.files = {f} THEN IdleSweep
  ELSE [IdleSweep EXCEPT !.pc = "loop", !.files = sweep.files \ {f}]

\* cleanupCache: the next file is read and its age tested
SweepRead(f) ==
  /\ ~Returning
  /\ sweep.pc = "loop"
  /\ f \in sweep.files
  /\ sweep' = IF f \in DOMAIN disk /\ IsExpired(disk[f].timestamp, now)
              THEN [sweep EXCEPT !.pc = "unlink", !.file = f]
              ELSE SweepAfter(f)
  /\ UNCHANGED <<now, memoryCache, accessOrder, disk, env, calls, clr, lastSaved>>

\* cleanupCache: the unlink of the expired file completes
SweepUnlink ==
  /\ ~Returning
  /\ sweep.pc = "unlink"
  /\ disk' = MapDelete(disk, sweep.file)
  /\ sweep' = SweepAfter(sweep.file)
  /\ UNCHANGED <<now, memoryCache, accessOrder, env, calls, clr, lastSaved>>

Next ==
  \/ \E c \in Callers, u \in UrlShapes, uc \in BOOLEAN : StartFetch(c, u, uc)
  \/ \E c \in Callers : ReadFileDone(c)
  \/ \E c \in Callers : UnlinkDone(c)
  \/ \E c \in Callers, o \in MdOutcomes : MdResponds(c, o)
  \/ \E c \in Callers, o \in CrawleeOutcomes : CrawleeResponds(c, o)
  \/ \E c \in Callers, o \in HtmlOutcomes : HtmlResponds(c, o)
  \/ \E c \in Callers : WriteFileDone(c)
  \/ \E c \in Callers : Return(c)
  \/ Tick
  \/ Restart
  \/ ClearStart
  \/ ClearReaddir
  \/ \E f \in DOMAIN disk : ClearUnlink(f)
  \/ SweepStart
  \/ \E f \in DOMAIN disk : SweepRead(f)
  \/ SweepUnlink

Spec == Init /\ [][Next]_vars

(***************************************************************************)
(* Disk faults: readFile, JSON.parse, unlink and writeFile may throw       *)
(***************************************************************************)
\* a saveToCache without its try/catch: the rejection reaches fetchUrl,
\* whose promise rejects
WriteFaultRethrown(call) == [call EXCEPT !.pc = "rejected"]

\* saveToCache lines 134-136: the catch logs the error and the function
\* returns; fetchUrl returns the result it was saving
WriteFault(call) == [call EXCEPT !.result = call.entry.data, !.pc = "done"]

\* getFromCache lines 104-112: the catch logs the error and the function
\* returns null; fetchUrl goes on to strategy 1
ReadFault(call) == Invoke(call, "md")

\* getFromCache: fs.readFile rejects with an error other than ENOENT, or
\* JSON.parse throws on the text of the file
ReadFileFails(c) ==
  /\ calls[c].pc = "readFile"
  /\ calls' = [calls EXCEPT ![c] = ReadFault(calls[c])]
  /\ UNCHANGED <<now, memoryCache, accessOrder, disk, env, sweep, clr, lastSaved>>

\* getFromCache: fs.unlink of the expired file rejects; the file stays
UnlinkFails(c) ==
  /\ calls[c].pc = "unlink"
  /\ calls' = [calls EXCEPT ![c] = ReadFault(calls[c])]
  /\ UNCHANGED <<now, memoryCache, accessOrder, disk, env, sweep, clr, lastSaved>>

\* saveToCache: fs.writeFile rejects; nothing is written
WriteFileFails(c) ==
  /\ calls[c].pc = "writeFile"
  /\ calls' = [calls EXCEPT ![c] = WriteFault(calls[c])]
  /\ UNCHANGED <<now, memoryCache, accessOrder, disk, env, sweep, clr, lastSaved>>

\* the calls of fetchUrl, time and restarts, with the faults of the disk
NextFaults ==
  \/ \E c \in Callers, u \in UrlShapes, uc \in BOOLEAN : StartFetch(c, u, uc)
  \/ \E c \in Callers : ReadFileDone(c)
  \/ \E c \in Callers : UnlinkDone(c)
  \/ \E c \in Callers, o \in MdOutcomes : MdResponds(c, o)
  \/ \E c \in Callers, o \in CrawleeOutcomes : CrawleeResponds(c, o)
  \/ \E c \in Callers, o \in HtmlOutcomes : HtmlResponds(c, o)
  \/ \E c \in Callers : WriteFileDone(c)
  \/ \E c \in Callers : Return(c)
  \/ Tick
  \/ Restart
  \/ \E c \in Callers : ReadFileFails(c)
  \/ \E c \in Callers : UnlinkFails(c)
  \/ \E c \in Callers : WriteFileFails(c)

SpecFaults == Init /\ [][NextFaults]_vars

(***************************************************************************)
(* The calls of fetchUrl when every awaited operation completes: each      *)
(* strategy attempt returns or times out, each file operation ends. The    *)
(* process has just started; the cache directory is empty or holds the     *)
(* file of a page saved by an earlier run, within the TTL or past it.      *)
(***************************************************************************)
InitLive ==
  /\ urls \in UrlPools
  /\ now \in {0, CACHE_TTL}
  /\ memoryCache = EmptyMap
  /\ accessOrder = <<>>
  /\ \/ disk = EmptyMap
     \/ \E u \in urls :
          disk = MapSet(EmptyMap, getCacheKey(u),
                   FileOf([data |-> Extracted(u, Html_text, "html"),
                           timestamp |-> 0, url |-> u]))
  /\ active = {1}
  /\ calls = [ c \in Callers |-> IdleCall ]
  /\ net = NoNet
  /\ disc = IdleDiscover
  /\ sweep = IdleSweep
  /\ clr = IdleClear
  /\ lastSaved = [ u \in UrlShapes |-> Null ]
  /\ pure = NoPure
  /\ lru = NoLru

Completes(c) ==
  \/ ReadFileDone(c)
  \/ UnlinkDone(c)
  \/ \E o \in MdOutcomes : MdResponds(c, o)
  \/ \E o \in CrawleeOutcomes : CrawleeResponds(c, o)
  \/ \E o \in HtmlOutcomes : HtmlResponds(c, o)
  \/ WriteFileDone(c)

NextLive ==
  \/ \E c \in Callers, u \in UrlShapes, uc \in BOOLEAN : StartFetch(c, u, uc)
  \/ \E c \in Callers : ReadFileDone(c)
  \/ \E c \in Callers : UnlinkDone(c)
  \/ \E c \in Callers, o \in MdOutcomes : MdResponds(c, o)
  \/ \E c \in Callers, o \in CrawleeOutcomes : CrawleeResponds(c, o)
  \/ \E c \in Callers, o \in HtmlOutcomes : HtmlResponds(c, o)
  \/ \E c \in Callers : WriteFileDone(c)
  \/ \E c \in Callers : Return(c)

SpecLive ==
  InitLive /\ [][NextLive]_vars /\ \A c \in Callers : WF_vars(Completes(c))

(***************************************************************************)
(* The fetcher on every shape of URL, without the passing of time          *)
(***************************************************************************)
InitShapes ==
  /\ now = 0
  /\ memoryCache = EmptyMap
  /\ accessOrder = <<>>
  /\ disk = EmptyMap
  /\ urls \in ShapePools
  /\ active = {1}
  /\ calls = [ c \in Callers |-> IdleCall ]
  /\ net = NoNet
  /\ disc = IdleDiscover
  /\ sweep = IdleSweep
  /\ clr = IdleClear
  /\ lastSaved = [ u \in UrlShapes |-> Null ]
  /\ pure = NoPure
  /\ lru = NoLru

NextShapes ==
  \/ \E c \in Callers, u \in UrlShapes, uc \in BOOLEAN : StartFetch(c, u, uc)
  \/ \E c \in Callers : ReadFileDone(c)
  \/ \E c \in Callers, o \in MdOutcomes : MdResponds(c, o)
  \/ \E c \in Callers, o \in CrawleeOutcomes : CrawleeResponds(c, o)
  \/ \E c \in Callers, o \in HtmlOutcomes : HtmlResponds(c, o)
  \/ \E c \in Callers : WriteFileDone(c)
  \/ \E c \in Callers : Return(c)
  \/ Restart

SpecShapes == InitShapes /\ [][NextShapes]_vars

(***************************************************************************)
(* unescapeMarkdown on its own output                                      *)
(***************************************************************************)
\* the pieces the input texts are made of
UnescapeTokens == { <<BackSlash>>, <<DQuote>>, <<SQuote>>, Apos, <<"a">> }

TokenSeqs == UNION { [1..n -> UnescapeTokens] : n \in 0..MaxTokens }

InitUnescape ==
  /\ now = 0
  /\ memoryCache = EmptyMap
  /\ accessOrder = <<>>
  /\ disk = EmptyMap
  /\ urls = {U_doc}
  /\ active = {}
  /\ calls = [ c \in Callers |-> IdleCall ]
  /\ net = NoNet
  /\ disc = IdleDiscover
  /\ sweep = IdleSweep
  /\ clr = IdleClear
  /\ lastSaved = [ u \in UrlShapes |-> Null ]
  /\ \E ws \in TokenSeqs : pure = [NoPure EXCEPT !.text = Concat(ws)]
  /\ lru = NoLru

\* unescapeMarkdown(x)
UnescapeOnce ==
  /\ pure.step = 0
  /\ pure' = [pure EXCEPT !.step = 1, !.once = unescapeMarkdown(pure.text)]
  /\ UNCHANGED <<now, memoryCache, accessOrder, disk, urls, active, calls, net, disc,
                 sweep, clr, lastSaved, lru>>

\* unescapeMarkdown(unescapeMarkdown(x))
UnescapeTwice ==
  /\ pure.step = 1
  /\ pure' = [pure EXCEPT !.step = 2, !.twice = unescapeMarkdown(pure.once)]
  /\ UNCHANGED <<now, memoryCache, accessOrder, disk, urls, active, calls, net, disc,
                 sweep, clr, lastSaved, lru>>

NextUnescape == UnescapeOnce \/ UnescapeTwice

SpecUnescape == InitUnescape /\ [][NextUnescape]_vars

(***************************************************************************)
(* The cache manager alone, on more keys than the memory tier holds:       *)
(* saveToCache and getFromCache called one after the other, each to its    *)
(* end, within the TTL.  A key stands for the URL it is the hash of.       *)
(***************************************************************************)
KeyNo(n) == <<0, n>>

LruKeys == { KeyNo(n) : n \in 1..(IN_MEMORY_CACHE_SIZE + MaxExtraKeys) }

\* the keys the calls of a run are about: the two stored first and the
\* ones beyond the capacity
LruTouched ==
  { KeyNo(n) : n \in {1, 2} \cup
       ((IN_MEMORY_CACHE_SIZE + 1)..(IN_MEMORY_CACHE_SIZE + MaxExtraKeys)) }

\* the entry saveToCache builds for the URL of key k at time t; the result
\* has no code blocks, a property the file does not keep
LruEntry(k, t) ==
  [ data |-> [success |-> TRUE, content |-> k, codeBlocks |-> Undefined,
              source |-> "html"],
    timestamp |-> t,
    url |-> k ]

\* the keys of rec after a use of k
Use(rec, k) == Append(SelectSeq(rec, LAMBDA x : x # k), k)

\* the state after saveToCache was called for keys 1..n in turn
InitLru ==
  /\ now = 0
  /\ \E n \in (IN_MEMORY_CACHE_SIZE - 1)..IN_MEMORY_CACHE_SIZE :
       /\ memoryCache = [ k \in { KeyNo(i) : i \in 1..n } |-> LruEntry(k, 0) ]
       /\ accessOrder = [ i \in 1..n |-> KeyNo(i) ]
       /\ disk = [ k \in { KeyNo(i) : i \in 1..n } |-> FileOf(LruEntry(k, 0)) ]
       /\ lru = [NoLru EXCEPT !.recency = [ i \in 1..n |-> KeyNo(i) ]]
  /\ urls = {U_doc}
  /\ active = {}
  /\ calls = [ c \in Callers |-> IdleCall ]
  /\ net = NoNet
  /\ disc = IdleDiscover
  /\ sweep = IdleSweep
  /\ clr = IdleClear
  /\ lastSaved = [ u \in UrlShapes |-> Null ]
  /\ pure = NoPure

\* a saveToCache whose eviction also removes the file of the evicted key
LruSaveUnlinksEvicted(k) ==
  /\ LET entry == LruEntry(k, now)
         am == addToMemoryCache(memoryCache, accessOrder, k, entry)
         gone == (DOMAIN memoryCache \cup {k}) \ DOMAIN am.mem
         disk1 == MapSet(disk, k, FileOf(entry))
     IN  /\ memoryCache' = am.mem
         /\ accessOrder' = am.order
         /\ disk' = [ f \in DOMAIN disk1 \ gone |-> disk1[f] ]
         /\ lru' = [ recency |-> SelectSeq(Use(lru.recency, k),
                                           LAMBDA x : x \in DOMAIN am.mem),
                     op |-> "save", key |-> k, got |-> Null ]
  /\ UNCHANGED <<now, urls, active, pure, calls, sweep, clr, lastSaved, net,
                 disc>>

\* saveToCache for the URL of key k, to its end
LruSave(k) ==
  /\ LET entry == LruEntry(k, now)
         am == addToMemoryCache(memoryCache, accessOrder, k, entry)
     IN  /\ memoryCache' = am.mem
         /\ accessOrder' = am.order
         /\ disk' = MapSet(disk, k, FileOf(entry))
         /\ lru' = [ recency |-> SelectSeq(Use(lru.recency, k),
                                           LAMBDA x : x \in DOMAIN am.mem),
                     op |-> "save", key |-> k, got |-> Null ]
  /\ UNCHANGED <<now, urls, active, pure, calls, sweep, clr, lastSaved, net,
                 disc>>

\* getFromCache for the URL of key k, to its end
LruGet(k) ==
  /\ IF k \in DOMAIN memoryCache /\ IsFresh(memoryCache[k].timestamp, now)
     THEN /\ accessOrder' = Append(RemoveFirst(accessOrder, k), k)
          /\ UNCHANGED <<memoryCache, disk>>
          /\ lru' = [ recency |-> Use(lru.recency, k), op |-> "get", key |-> k,
                      got |-> memoryCache[k].data ]
     ELSE LET mem1 == MapDelete(memoryCache, k)
              order1 == RemoveFirst(accessOrder, k)
              rec1 == SelectSeq(lru.recency, LAMBDA x : x # k)
          IN  IF k \in DOMAIN disk /\ IsFresh(disk[k].timestamp, now)
              THEN LET am == addToMemoryCache(mem1, order1, k, disk[k])
                   IN  /\ memoryCache' = am.mem
                       /\ accessOrder' = am.order
                       /\ UNCHANGED disk
                       /\ lru' = [ recency |-> SelectSeq(Use(rec1, k),
                                                 LAMBDA x : x \in DOMAIN am.mem),
                                   op |-> "get", key |-> k,
                                   got |-> disk[k].data ]
              ELSE /\ memoryCache' = mem1
                   /\ accessOrder' = order1
                   /\ disk' = MapDelete(disk, k)
                   /\ lru' = [ recency |-> rec1, op |-> "get", key |-> k,
                               got |-> Null ]
  /\ UNCHANGED <<now, urls, active, pure, calls, sweep, clr, lastSaved, net,
                 disc>>

NextLru ==
  \/ \E k \in LruTouched : LruSave(k)
  \/ \E k \in LruTouched : LruGet(k)

SpecLru == InitLru /\ [][NextLru]_vars

(***************************************************************************)
(* clearCache with no other cache operation in flight: it begins when no   *)
(* fetchUrl call and no cleanupCache pass is running, and no call begins   *)
(* before it completes                                                     *)
(***************************************************************************)
InitAlone ==
  /\ now = 0
  /\ memoryCache = EmptyMap
  /\ accessOrder = <<>>
  /\ disk = EmptyMap
  /\ urls = FetchedUrls
  /\ active = {1}
  /\ calls = [ c \in Callers |-> IdleCall ]
  /\ net = NoNet
  /\ disc = IdleDiscover
  /\ sweep = IdleSweep
  /\ clr = IdleClear
  /\ lastSaved = [ u \in UrlShapes |-> Null ]
  /\ pure = NoPure
  /\ lru = NoLru

NoCallRunning == \A c \in Callers : calls[c].pc = "idle"

NoPassRunning == clr.pc = "idle" /\ sweep.pc = "idle"

ClearStartAlone == NoCallRunning /\ NoPassRunning /\ ClearStart

SweepStartAlone == NoCallRunning /\ NoPassRunning /\ SweepStart

StartFetchAlone(c, u, uc) == NoPassRunning /\ StartFetch(c, u, uc)

TickAlone == NoPassRunning /\ Tick

NextAlone ==
  \/ \E c \in Callers, u \in UrlShapes, uc \in BOOLEAN : StartFetchAlone(c, u, uc)
  \/ \E c \in Callers : ReadFileDone(c)
  \/ \E c \in Callers, o \in MdOutcomes : MdResponds(c, o)
  \/ \E c \in Callers, o \in CrawleeOutcomes : CrawleeResponds(c, o)
  \/ \E c \in Callers, o \in HtmlOutcomes : HtmlResponds(c, o)
  \/ \E c \in Callers : WriteFileDone(c)
  \/ \E c \in Callers : Return(c)
  \/ ClearStartAlone
  \/ ClearReaddir
  \/ \E f \in DOMAIN disk : ClearUnlink(f)

SpecAlone == InitAlone /\ [][NextAlone]_vars

(***************************************************************************)
(* cleanupCache with no concurrent cache operation: saveToCache and        *)
(* getFromCache run to their end between the passes, and a pass takes less *)
(* than a step of the clock                                                *)
(***************************************************************************)
SweptKeys == { KeyNo(1), KeyNo(2) }

InitSweep ==
  /\ now = 0
  /\ memoryCache = EmptyMap
  /\ accessOrder = <<>>
  /\ disk = EmptyMap
  /\ urls = {U_doc}
  /\ active = {}
  /\ calls = [ c \in Callers |-> IdleCall ]
  /\ net = NoNet
  /\ disc = IdleDiscover
  /\ sweep = IdleSweep
  /\ clr = IdleClear
  /\ lastSaved = [ u \in UrlShapes |-> Null ]
  /\ pure = NoPure
  /\ lru = NoLru

SaveAlone(k) == NoPassRunning /\ LruSave(k)

GetAlone(k) == NoPassRunning /\ LruGet(k)

NextSweep ==
  \/ \E k \in SweptKeys : SaveAlone(k)
  \/ \E k \in SweptKeys : GetAlone(k)
  \/ TickAlone
  \/ SweepStartAlone
  \/ \E f \in DOMAIN disk : SweepRead(f)
  \/ SweepUnlink

SpecSweep == InitSweep /\ [][NextSweep]_vars

\* the four operations of the cache manager, one after the other
NextManager ==
  \/ NextSweep
  \/ ClearStartAlone
  \/ ClearReaddir
  \/ \E f \in DOMAIN disk : ClearUnlink(f)

SpecManager == InitSweep /\ [][NextManager]_vars

(***************************************************************************)
(* fetchUrl(url, {useCache: false, timeout}) against servers that answer   *)
(* every request with a page, after a time of their own                    *)
(***************************************************************************)
\* the timeout options of the calls, and the times the servers take, in ms
TimeoutOptions == { 10000, FETCH_TIMEOUT, 60000 }
ResponseTimes == { 5000, 20000, 45000, 90000 }

MdPages == [kind : {"ok"}, body : MdBodies]
HtmlPages == { [kind |-> "ok", content |-> Html_text] }

InitTimeout ==
  /\ now = 0
  /\ memoryCache = EmptyMap
  /\ accessOrder = <<>>
  /\ disk = EmptyMap
  /\ urls \in UrlPools
  /\ active = {1}
  /\ calls = [ c \in Callers |-> IdleCall ]
  /\ net \in [ md : ResponseTimes, html : ResponseTimes ]
  /\ disc = IdleDiscover
  /\ sweep = IdleSweep
  /\ clr = IdleClear
  /\ lastSaved = [ u \in UrlShapes |-> Null ]
  /\ pure = NoPure
  /\ lru = NoLru

\* fetchUrl(u, {useCache: false, timeout: t}) up to its first await
StartFetchTimeout(c, u, t) ==
  /\ c \in active
  /\ calls[c].pc = "idle"
  /\ u \in urls
  /\ calls' = [calls EXCEPT ![c] =
                 Invoke([IdleCall EXCEPT !.url = u, !.timeout = t], "md")]
  /\ UNCHANGED <<now, memoryCache, accessOrder, disk, env, sweep, clr, lastSaved>>

\* tryFetchMarkdown line 113: fetchWithTimeout(mdUrl), the timeout defaulted
MdRespondsInTime(c, outcome) ==
  MdResponds(c, fetchWithTimeout(net.md, FETCH_TIMEOUT, outcome))

\* fetchHtmlAndConvert line 156: fetchWithTimeout(url), the timeout defaulted
HtmlRespondsInTime(c, outcome) ==
  HtmlResponds(c, fetchWithTimeout(net.html, FETCH_TIMEOUT, outcome))

NextTimeout ==
  \/ \E c \in Callers, u \in UrlShapes, t \in TimeoutOptions :
       StartFetchTimeout(c, u, t)
  \/ \E c \in Callers, o \in MdPages : MdRespondsInTime(c, o)
  \/ \E c \in Callers, o \in CrawleeOutcomes : CrawleeResponds(c, o)
  \/ \E c \in Callers, o \in HtmlPages : HtmlRespondsInTime(c, o)
  \/ \E c \in Callers : Return(c)

SpecTimeout == InitTimeout /\ [][NextTimeout]_vars

(***************************************************************************)
(* discoverDocs, discoverComponents and discoverBitsUIComponents, called   *)
(* one after the other; the pages of the model hold no links               *)
(***************************************************************************)
\* cacheKey of the discovery functions
ListName(s) ==
  IF s = "docs" THEN <<"d", "o", "c", "s", "-", "l", "i", "s", "t">>
  ELSE IF s = "components"
  THEN <<"c", "o", "m", "p", "o", "n", "e", "n", "t", "-", "l", "i", "s", "t">>
  ELSE <<"b", "i", "t", "s", "-", "u", "i", "-", "c", "o", "m", "p", "o", "n",
         "e", "n", "t", "-", "l", "i", "s", "t">>

\* the page that discoverDocs or discoverComponents fetches
ListUrl(s) == IF s = "docs" THEN U_docsRoot ELSE U_componentsIndex

\* discoverDocs: fallbackDocs
fallbackDocs ==
  [ installation |-> <<"sveltekit", "vite", "astro">>,
    darkMode |-> <<"svelte">>,
    migration |-> <<"svelte-5", "tailwind-v4">>,
    general |-> <<"cli", "theming", "components-json", "figma", "changelog",
                  "about">> ]

\* discoverDocs of a page without links: ensureSections, each sorted
ensuredDocs ==
  [ installation |-> <<"astro", "sveltekit", "vite">>,
    darkMode |-> <<"svelte">>,
    migration |-> <<"svelte-5", "tailwind-v4">>,
    general |-> <<"about", "changelog", "cli", "components-json", "figma",
                  "theming">> ]

\* an array of component infos
ListOf(names, category) ==
  [ items |-> [ i \in 1..Len(names) |->
                  [name |-> names[i], category |-> category] ] ]

\* what the GitHub request of discoverBitsUIComponents meets: a file with
\* the bits array, a file without it, a status that is not ok, a throw
BitsOutcomes ==
  { [kind |-> "ok", names |-> <<"accordion">>], [kind |-> "ok", names |-> <<>>],
    [kind |-> "notOk"], [kind |-> "throw"] }

\* getFromCache(key) at time t, to its end: the data it returns and the
\* tiers it leaves
getFromCache(mem, order, dsk, key, t) ==
  IF key \in DOMAIN mem /\ IsFresh(mem[key].timestamp, t)
  THEN [ data |-> mem[key].data, mem |-> mem,
         order |-> Append(RemoveFirst(order, key), key), disk |-> dsk ]
  ELSE LET mem1 == MapDelete(mem, key)
           order1 == RemoveFirst(order, key)
       IN  IF key \in DOMAIN dsk /\ IsFresh(dsk[key].timestamp, t)
           THEN LET am == addToMemoryCache(mem1, order1, key, dsk[key])
                IN  [ data |-> dsk[key].data, mem |-> am.mem,
                      order |-> am.order, disk |-> dsk ]
           ELSE [ data |-> Null, mem |-> mem1, order |-> order1,
                  disk |-> MapDelete(dsk, key) ]

\* saveToCache(url, data) at time t, to its end; a list of plain strings
\* reads back from its JSON text as it was written
saveToCache(mem, order, dsk, url, data, t) ==
  LET entry == [data |-> data, timestamp |-> t, url |-> url]
      am == addToMemoryCache(mem, order, getCacheKey(url), entry)
  IN  [ mem |-> am.mem, order |-> am.order,
        disk |-> MapSet(dsk, getCacheKey(url), entry) ]

InitDiscover ==
  /\ now = 0
  /\ memoryCache = EmptyMap
  /\ accessOrder = <<>>
  /\ disk = EmptyMap
  /\ urls = { U_docsRoot, U_componentsIndex }
  /\ active = {1}
  /\ calls = [ c \in Callers |-> IdleCall ]
  /\ net = NoNet
  /\ disc = IdleDiscover
  /\ sweep = IdleSweep
  /\ clr = IdleClear
  /\ lastSaved = [ u \in UrlShapes |-> Null ]
  /\ pure = NoPure
  /\ lru = NoLru

\* the discovery function s up to its remote fetch: "Check cache first"
DiscoverStart(s) ==
  /\ disc.pc = "idle"
  /\ LET got == getFromCache(memoryCache, accessOrder, disk,
                             getCacheKey(ListName(s)), now)
     IN  /\ memoryCache' = got.mem
         /\ accessOrder' = got.order
         /\ disk' = got.disk
         /\ disc' = IF got.data # Null
                    THEN [disc EXCEPT !.pc = "done", !.site = s,
                                      !.result = got.data]
                    ELSE [disc EXCEPT !.pc = "fetch", !.site = s]
  /\ UNCHANGED <<now, urls, active, calls, sweep, clr, lastSaved, pure, lru, net>>

\* discoverDocs, discoverComponents: fetchUrl(page, {useCache: true})
DiscoverFetchUrl(s) ==
  /\ disc.pc = "fetch"
  /\ disc.site = s
  /\ s \in {"docs", "components"}
  /\ StartFetch(1, ListUrl(s), TRUE)

\* the function of site s after its remote fetch: failed tells that the
\* fetch failed, list is what was made of the answer
DiscoverEnd(s, failed, list) ==
  LET saved == saveToCache(memoryCache, accessOrder, disk, ListName(s),
                           list, now)
      saves == ~(failed /\ s = "components")
  IN  /\ memoryCache' = IF saves THEN saved.mem ELSE memoryCache
      /\ accessOrder' = IF saves THEN saved.order ELSE accessOrder
      /\ disk' = IF saves THEN saved.disk ELSE disk
      /\ disc' = [disc EXCEPT !.pc = "done", !.result = list,
                              !.failed[s] = failed]

\* discoverDocs, discoverComponents: fetchUrl has returned its result
DiscoverFetched(s) ==
  /\ disc.pc = "fetch"
  /\ disc.site = s
  /\ s \in {"docs", "components"}
  /\ calls[1].pc = "done"
  /\ LET result == calls[1].result
         failed == \/ ~result.success
                   \/ "markdown" \notin DOMAIN result
                   \/ Len(result.markdown) = 0
     IN  DiscoverEnd(s, failed,
           IF s = "docs"
           THEN (IF failed THEN fallbackDocs ELSE ensuredDocs)
           ELSE ListOf(<<>>, "component"))
  /\ calls' = [calls EXCEPT ![1] = IdleCall]
  /\ UNCHANGED <<now, urls, active, sweep, clr, lastSaved, pure, lru, net>>

\* discoverBitsUIComponents: the request to GitHub answers
BitsResponds(outcome) ==
  /\ disc.pc = "fetch"
  /\ disc.site = "bits"
  /\ DiscoverEnd("bits", outcome.kind # "ok",
       ListOf(IF outcome.kind = "ok" THEN outcome.names ELSE <<>>,
              "bits-ui-component"))
  /\ UNCHANGED <<now, urls, active, calls, sweep, clr, lastSaved, pure, lru, net>>

\* the caller takes the list
DiscoverReturn ==
  /\ disc.pc = "done"
  /\ disc' = [disc EXCEPT !.pc = "idle", !.site = "none", !.result = Null]
  /\ UNCHANGED <<now, memoryCache, accessOrder, disk, urls, active, calls,
                 sweep, clr, lastSaved, pure, lru, net>>

NextDiscover ==
  \/ \E s \in Sites : DiscoverStart(s)
  \/ \E s \in Sites : DiscoverFetchUrl(s)
  \/ \E c \in Callers : ReadFileDone(c)
  \/ \E c \in Callers, o \in MdOutcomes : MdResponds(c, o)
  \/ \E c \in Callers, o \in HtmlOutcomes : HtmlResponds(c, o)
  \/ \E c \in Callers : WriteFileDone(c)
  \/ \E s \in Sites : DiscoverFetched(s)
  \/ \E o \in BitsOutcomes : BitsResponds(o)
  \/ DiscoverReturn

SpecDiscover == InitDiscover /\ [][NextDiscover]_vars

(***************************************************************************)
(* The calls of fetchUrl for two URLs whose hashes are equal, or equal up  *)
(* to the sign, one call after the other, with restarts                    *)
(***************************************************************************)
InitKeys ==
  /\ now = 0
  /\ memoryCache = EmptyMap
  /\ accessOrder = <<>>
  /\ disk = EmptyMap
  /\ urls \in { {U_docsAm, U_docsCSlash}, {U_saXrc, U_sauaSlash} }
  /\ active = {1}
  /\ calls = [ c \in Callers |-> IdleCall ]
  /\ net = NoNet
  /\ disc = IdleDiscover
  /\ sweep = IdleSweep
  /\ clr = IdleClear
  /\ lastSaved = [ u \in UrlShapes |-> Null ]
  /\ pure = NoPure
  /\ lru = NoLru

NextKeys ==
  \/ \E c \in Callers, u \in UrlShapes : StartFetch(c, u, TRUE)
  \/ \E c \in Callers : ReadFileDone(c)
  \/ \E c \in Callers, o \in MdOutcomes : MdResponds(c, o)
  \/ \E c \in Callers, o \in HtmlOutcomes : HtmlResponds(c, o)
  \/ \E c \in Callers : WriteFileDone(c)
  \/ \E c \in Callers : Return(c)
  \/ Restart

SpecKeys == InitKeys /\ [][NextKeys]_vars

(***************************************************************************)
(* Two fetchUrl calls for one URL, begun with an empty cache and running   *)
(* at the same time; each caller makes its one call and keeps the result   *)
(***************************************************************************)
InitPair ==
  /\ now = 0
  /\ memoryCache = EmptyMap
  /\ accessOrder = <<>>
  /\ disk = EmptyMap
  /\ urls \in UrlPools
  /\ active = Callers
  /\ calls = [ c \in Callers |-> IdleCall ]
  /\ net = NoNet
  /\ disc = IdleDiscover
  /\ sweep = IdleSweep
  /\ clr = IdleClear
  /\ lastSaved = [ u \in UrlShapes |-> Null ]
  /\ pure = NoPure
  /\ lru = NoLru

NextPair ==
  \/ \E c \in Callers, u \in UrlShapes : StartFetch(c, u, TRUE)
  \/ \E c \in Callers : ReadFileDone(c)
  \/ \E c \in Callers, o \in MdOutcomes : MdResponds(c, o)
  \/ \E c \in Callers, o \in CrawleeOutcomes : CrawleeResponds(c, o)
  \/ \E c \in Callers, o \in HtmlOutcomes : HtmlResponds(c, o)
  \/ \E c \in Callers : WriteFileDone(c)

SpecPair == InitPair /\ [][NextPair]_vars

(***************************************************************************)
(* Properties                                                              *)
(***************************************************************************)
\* the strategies of a call, in the order of their invocation
StrategiesOf(call) == [ i \in 1..Len(call.tried) |-> call.tried[i].strategy ]

\* every strategy of the call has answered, none with success:true
Exhausted(call) ==
  /\ call.tried # <<>>
  /\ \A i \in 1..Len(call.tried) : call.tried[i].out \in {"null", "failed"}

\* the source tag of a result, "none" for a result without one
SourceOf(r) == IF "source" \in DOMAIN r THEN r.source ELSE "none"

\* the place of a strategy in the fixed order
Rank(s) == CASE s = "md" -> 1 [] s = "crawlee" -> 2 [] s = "html" -> 3

\* the properties of a JavaScript object that hold a value
Props(obj) ==
  { k \in DOMAIN obj : ~(k \in OptionalKeys /\ obj[k] = Undefined) }

SameFlat(a, b, skip) ==
  /\ Props(a) \ skip = Props(b) \ skip
  /\ \A k \in Props(a) \ (skip \cup {"metadata"}) : a[k] = b[k]

\* a and b read the same in every field, those of skip aside
SameResult(a, b, skip) ==
  /\ SameFlat(a, b, skip)
  /\ "metadata" \in Props(a) => SameFlat(a.metadata, b.metadata, {})

\* C1: the strategies of a call are invoked one at a time in the fixed order
\* direct, browser, html; a strategy is invoked only when every earlier one
\* of the call answered without success; and a call that ends on a strategy's
\* success:true result returns that result as the strategy produced it.
C1_FirstSuccessWins ==
  \A c \in Callers :
    LET call == calls[c]
        n == Len(call.tried)
    IN  /\ \A i \in 1..n : \A j \in 1..n :
              i < j => Rank(call.tried[i].strategy) < Rank(call.tried[j].strategy)
        /\ \A i \in 1..n : i < n => call.tried[i].out \in {"null", "failed"}
        /\ (n > 0 /\ call.tried[n].out = "success")
              => /\ call.pc \in {"writeFile", "done"}
                 /\ call.pc = "done" => call.result = call.answer

\* the browser strategy succeeded after the direct one answered null, and the
\* html strategy was not invoked
C1_Witness ==
  /\ calls[1].pc = "done"
  /\ StrategiesOf(calls[1]) = <<"md", "crawlee">>
  /\ calls[1].tried[1].out = "null"
  /\ calls[1].tried[2].out = "success"
  /\ calls[1].result.source = "crawlee"

\* the URL holds one of the markers of the script-rendered sections
HasScriptMarker(url) ==
  \E m \in {W_charts, W_themes, W_blocks, W_colors} : Includes(url, m)

\* C2: when every strategy fails, a URL holding /charts, /themes, /blocks or
\* /colors has had direct, browser, html attempted in that order and any other
\* URL direct, html; the browser strategy is never invoked for the other URLs,
\* and html is the last strategy of every call that reaches it.
C2_StrategyOrder ==
  \A c \in Callers :
    LET call == calls[c]
        n == Len(call.tried)
    IN  /\ (call.pc = "done" /\ Exhausted(call))
              => StrategiesOf(call) =
                   IF HasScriptMarker(call.url) THEN <<"md", "crawlee", "html">>
                   ELSE <<"md", "html">>
        /\ \A i \in 1..n :
              /\ call.tried[i].strategy = "crawlee" => HasScriptMarker(call.url)
              /\ call.tried[i].strategy = "html" => i = n

\* every strategy failed for the /colors URL
C2_Witness ==
  /\ calls[1].pc = "done"
  /\ calls[1].url = U_color
  /\ Exhausted(calls[1])
  /\ StrategiesOf(calls[1]) = <<"md", "crawlee", "html">>

\* the step of caller c in which getFromCache reads a tier that holds an
\* entry for the URL of age below the TTL
ReadsFreshEntry(c) ==
  LET key == getCacheKey(calls'[c].url)
  IN  \/ /\ calls[c].pc = "idle"
         /\ calls'[c].pc # "idle"
         /\ calls'[c].useCache
         /\ key \in DOMAIN memoryCache
         /\ now - memoryCache[key].timestamp < CACHE_TTL
      \/ /\ calls[c].pc = "readFile"
         /\ calls'[c].pc \notin {"idle", "readFile"}
         /\ key \in DOMAIN disk
         /\ now - disk[key].timestamp < CACHE_TTL

\* the payload of the entry read in that step
FreshPayload(c) ==
  LET key == getCacheKey(calls'[c].url)
  IN  IF calls[c].pc = "idle" THEN memoryCache[key].data ELSE disk[key].data

C3_Step ==
  \A c \in Callers :
    /\ ReadsFreshEntry(c) =>
         /\ calls'[c].pc = "done"
         /\ calls'[c].tried = <<>>
         /\ SourceOf(calls'[c].result) = "cache"
         /\ SameResult(calls'[c].result, FreshPayload(c), {"source"})
    /\ (calls'[c].pc = "done" /\ SourceOf(calls'[c].result) = "cache")
         => calls'[c].tried = <<>>

\* C3: a fetchUrl call with the cache enabled that finds an entry for its URL
\* within the TTL (in memory, else on disk) returns at once the payload of the
\* entry with source "cache", and has invoked no strategy.
C3_CacheHit == [][C3_Step]_vars

C3_Witness ==
  /\ calls[1].pc = "done"
  /\ calls[1].useCache
  /\ SourceOf(calls[1].result) = "cache"
  /\ calls[1].result.success
  /\ calls[1].tried = <<>>

\* a save of url u has returned, with no clearCache in flight then and none
\* begun since, and its age is below the TTL
Held(u) ==
  /\ lastSaved[u] # Null
  /\ lastSaved[u].noClear
  /\ now - lastSaved[u].at < CACHE_TTL

\* caller c ends the lookup of getFromCache in this step
EndsLookup(c) ==
  \/ calls[c].pc = "idle" /\ calls'[c].pc \notin {"idle", "readFile"}
  \/ calls[c].pc = "readFile" /\ calls'[c].pc \notin {"idle", "readFile"}

C4_Step ==
  \A c \in Callers :
    LET a == calls[c]
        b == calls'[c]
        key == getCacheKey(b.url)
    IN  /\ (b.pc = "done" /\ a.pc # "done" /\ b.useCache
              /\ b.result.success /\ SourceOf(b.result) # "cache")
           => /\ a.pc = "writeFile"
              /\ b.result = b.answer
              /\ a.entry.data = b.result
              /\ key \in DOMAIN disk'
              /\ SameResult(disk'[key].data, b.result, {})
              /\ disk'[key].timestamp = a.entry.timestamp
        /\ (b.pc = "writeFile" /\ a.pc # "writeFile")
           => /\ key \in DOMAIN memoryCache'
              /\ memoryCache'[key] = b.entry
              /\ b.entry.data = b.answer
              /\ b.entry.timestamp = now
        /\ (a.pc = "idle" /\ b.pc # "idle" /\ b.useCache /\ Held(b.url))
           => b.pc \in {"readFile", "done"}
        /\ (EndsLookup(c) /\ b.useCache /\ Held(b.url))
           => /\ b.pc = "done"
              /\ b.tried = <<>>
              /\ SourceOf(b.result) = "cache"
              /\ b.result.content = lastSaved[b.url].data.content

\* C4: a fetchUrl call with the cache enabled that returns a strategy's
\* success:true result has written that result to the memory tier and to the
\* disk tier before it returns; and a later fetchUrl of the same URL with the
\* cache enabled, within the TTL and with no clearCache in between, returns
\* the identical content with source "cache" and invokes no strategy.
C4_WriteThrough == [][C4_Step]_vars

\* caller c's lookup returns a value in this step
Served(c) == calls[c].cached = Null /\ calls'[c].cached # Null

C5_Step ==
  \A c \in Callers :
    LET b == calls'[c]
    IN  Served(c)
          => /\ lastSaved[b.url] # Null
             /\ now - lastSaved[b.url].at < CACHE_TTL
             /\ SameResult(b.cached, lastSaved[b.url].data, {})
             /\ b.pc = "done"
             /\ SameResult(b.result, lastSaved[b.url].data, {"source"})
             /\ SourceOf(b.result) = "cache"

MetEntry(c) ==
  LET key == getCacheKey(calls'[c].url)
  IN  IF calls[c].pc = "idle" THEN memoryCache[key] ELSE disk[key]

\* caller c's lookup reads, in this step, a tier that holds an entry for
\* its URL
MeetsEntry(c) ==
  LET key == getCacheKey(calls'[c].url)
  IN  \/ /\ calls[c].pc = "idle"
         /\ calls'[c].pc # "idle"
         /\ calls'[c].useCache
         /\ key \in DOMAIN memoryCache
      \/ /\ calls[c].pc = "readFile"
         /\ calls'[c].pc \notin {"idle", "readFile"}
         /\ key \in DOMAIN disk

C6_Step ==
  \A c \in Callers :
    LET a == calls[c]
        b == calls'[c]
        key == getCacheKey(a.url)
    IN  /\ (MeetsEntry(c) /\ b.cached # Null)
           => /\ b.cached = MetEntry(c).data
              /\ ~(now - MetEntry(c).timestamp > CACHE_TTL)
        /\ (MeetsEntry(c) /\ now - MetEntry(c).timestamp > CACHE_TTL)
           => /\ b.cached = Null
              /\ b.pc # "done"
              /\ a.pc = "idle"
                   => /\ getCacheKey(b.url) \notin DOMAIN memoryCache'
                      /\ \A i \in 1..Len(accessOrder') :
                            accessOrder'[i] # getCacheKey(b.url)
              /\ a.pc = "readFile" => b.pc = "unlink"
        /\ (a.pc = "unlink" /\ b.pc \notin {"idle", "unlink"})
           => /\ key \notin DOMAIN disk'
              /\ b.cached = Null
              /\ b.pc = "md"
        /\ (a.cached = Null /\ b.cached # Null) => MeetsEntry(c)

\* C6: getFromCache never returns an entry whose age is above the TTL, from
\* the memory tier or from the disk tier; when its lookup meets such an entry
\* it deletes the entry from the tier that held it (and from the LRU list for
\* the memory tier) and the lookup ends as a miss.
C6_TtlExpiry == [][C6_Step]_vars

\* the lookup met on disk an entry of age above the TTL and is deleting it
C6_Witness ==
  /\ calls[1].pc = "unlink"
  /\ getCacheKey(calls[1].url) \in DOMAIN disk
  /\ now - disk[getCacheKey(calls[1].url)].timestamp > CACHE_TTL

\* no entry is added to, or replaced in, a cache tier in this step
NothingWritten ==
  /\ \A k \in DOMAIN memoryCache' :
        k \in DOMAIN memoryCache /\ memoryCache'[k] = memoryCache[k]
  /\ \A k \in DOMAIN disk' : k \in DOMAIN disk /\ disk'[k] = disk[k]

C7_Step ==
  \A c \in Callers :
    LET a == calls[c]
        b == calls'[c]
    IN  /\ (b.pc = "done" /\ Exhausted(b))
           => /\ b.result.success = FALSE
              /\ "error" \in DOMAIN b.result
              /\ b.result.error # ""
              /\ b.entry = Null
              /\ b.cached = Null
        /\ (b # a /\ b.entry = Null /\ b.cached = Null) => NothingWritten

\* C7: when every strategy that fetchUrl attempted for the URL answered null
\* or success:false, fetchUrl returns success:false with a non-empty error,
\* and no step of that call adds or replaces an entry in the memory tier or
\* in the disk tier.
C7_Exhaustion == [][C7_Step]_vars

\* all three strategies failed for a call with the cache enabled
C7_Witness ==
  /\ calls[1].pc = "done"
  /\ calls[1].useCache
  /\ Exhausted(calls[1])
  /\ Len(calls[1].tried) = 3
  /\ calls[1].result.success = FALSE

\* C8: every result fetchUrl returns, from the cache or from a strategy, has
\* success true exactly when its content is present and is neither empty nor
\* whitespace only; and a failed result carries an error and no content.
C8_SuccessIffContent ==
  \A c \in Callers :
    calls[c].pc = "done" =>
      LET r == calls[c].result
      IN  /\ r.success <=> ("content" \in DOMAIN r /\ Len(Trim(r.content)) > 0)
          /\ ~r.success => ("error" \in DOMAIN r /\ "content" \notin DOMAIN r)

\* C9: every successful result has the content type that the ordered URL
\* markers give (/docs/components/, /docs/, /blocks, /charts, /themes, else
\* unknown), whichever of direct, browser or html produced it.
C9_TypeFromUrl ==
  \A c \in Callers :
    (calls[c].pc = "done" /\ calls[c].result.success)
      => calls[c].result.type = TypeFromUrl(calls[c].url)

\* C10 as stated: for every input x,
\* unescapeMarkdown(unescapeMarkdown(x)) = unescapeMarkdown(x).
C10_IdempotentEverywhere ==
  pure.step = 2 => pure.twice = pure.once

\* a backslash stands immediately before an escaped quote or the entity
EscapedEscape(x) ==
  \E pat \in { <<BackSlash, DQuote>>, <<BackSlash, SQuote>>, Apos } :
    Includes(x, <<BackSlash>> \o pat)

\* C10 amended: unescapeMarkdown(unescapeMarkdown(x)) = unescapeMarkdown(x)
\* for exactly the inputs x in which no backslash stands immediately before
\* a backslash-escaped double quote, a backslash-escaped single quote or the
\* entity &apos;.
C10_IdempotentUnlessEscapedEscape ==
  pure.step = 2 => (pure.twice = pure.once <=> ~EscapedEscape(pure.text))

\* an input without an escaped escape that the first application changed
C10_Witness ==
  /\ pure.step = 2
  /\ ~EscapedEscape(pure.text)
  /\ Includes(pure.text, <<BackSlash, DQuote>>)
  /\ Includes(pure.text, Apos)
  /\ pure.once # pure.text
  /\ pure.twice = pure.once

C11_Step ==
  \A c \in Callers :
    LET a == calls[c]
        b == calls'[c]
        key == getCacheKey(a.url)
    IN  /\ b.pc # "rejected"
        /\ (a.pc \in {"readFile", "unlink"} /\ b.pc \notin {"idle", "readFile", "unlink"})
           => \/ b.pc = "md" /\ b.cached = Null /\ b.result = Null
              \/ /\ b.pc = "done"
                 /\ key \in DOMAIN memoryCache'
                 /\ b.cached = memoryCache'[key].data
                 /\ IsFresh(memoryCache'[key].timestamp, now)
        /\ (a.pc = "writeFile" /\ b.pc \notin {"idle", "writeFile"})
           => /\ b.pc = "done"
              /\ b.result = b.answer
        /\ (b.pc = "done" /\ b.tried # <<>>)
           => /\ b.cached = Null
              /\ b.tried[Len(b.tried)].out = "success" => b.result = b.answer
              /\ Exhausted(b) => (b.result.success = FALSE /\ "error" \in DOMAIN b.result)

\* C11: when a disk read, a parse, a delete or a write of the cache fails,
\* the failure never reaches the caller of fetchUrl: the lookup of
\* getFromCache ends as absent or with a valid entry now in the memory tier,
\* saveToCache completes, and fetchUrl returns what the chain of strategies
\* produced, success or failure.
C11_FaultsSwallowed == [][C11_Step]_vars

\* the write of a successful result failed and fetchUrl returned the result,
\* after a lookup that failed on a file holding a fresh entry
C11_Witness ==
  /\ calls[1].pc = "done"
  /\ calls[1].useCache
  /\ calls[1].result.success
  /\ calls[1].tried # <<>>
  /\ getCacheKey(calls[1].url) \in DOMAIN disk
  /\ IsFresh(disk[getCacheKey(calls[1].url)].timestamp, now)
  /\ disk[getCacheKey(calls[1].url)].timestamp # calls[1].entry.timestamp

\* the keys that leave the memory tier in this step
Evicted == DOMAIN memoryCache \ DOMAIN memoryCache'

\* a key that the memory tier did not hold enters it in this step
Inserted(k) == k \notin DOMAIN memoryCache /\ k \in DOMAIN memoryCache'

C12_Step ==
  /\ Cardinality(DOMAIN memoryCache') <= IN_MEMORY_CACHE_SIZE
  /\ \A k \in LruKeys :
       Inserted(k) =>
         IF Cardinality(DOMAIN memoryCache) = IN_MEMORY_CACHE_SIZE
         THEN /\ Evicted = {Head(lru.recency)}
              /\ Head(lru.recency) # k
         ELSE Evicted = {}
  /\ (\A k \in LruKeys : ~Inserted(k)) => Evicted = {}
  /\ (lru'.op = "save" \/ lru'.got # Null) => lru'.key \in DOMAIN memoryCache'

\* C12: the memory tier never holds more than 50 entries; when a key that is
\* not in the tier is inserted into a full tier exactly one entry leaves it,
\* the one whose latest get-hit or put is the oldest, never the key inserted;
\* and no entry leaves it otherwise.
C12_LruBound == [][C12_Step]_vars

\* a full tier that holds both keys beyond the capacity and the key stored
\* second, the key stored third having been evicted
C12_Witness ==
  /\ Cardinality(DOMAIN memoryCache) = IN_MEMORY_CACHE_SIZE
  /\ KeyNo(2) \in DOMAIN memoryCache
  /\ KeyNo(3) \notin DOMAIN memoryCache
  /\ KeyNo(IN_MEMORY_CACHE_SIZE + 1) \in DOMAIN memoryCache
  /\ KeyNo(IN_MEMORY_CACHE_SIZE + 2) \in DOMAIN memoryCache

C13_Step ==
  /\ \A k \in Evicted :
       /\ k \in DOMAIN disk
       /\ k \in DOMAIN disk'
       /\ disk'[k] = disk[k]
  /\ Evicted # {} =>
       \A f \in DOMAIN disk : f # lru'.key => (f \in DOMAIN disk' /\ disk'[f] = disk[f])
  /\ (lru'.op = "get" /\ lru'.key \notin DOMAIN memoryCache
        /\ lru'.key \in DOMAIN disk /\ IsFresh(disk[lru'.key].timestamp, now))
     => /\ lru'.got # Null
        /\ SameResult(lru'.got, LruEntry(lru'.key, 0).data, {})

\* C13: a step that evicts a key from the memory tier leaves the files of the
\* disk tier as they were (the file of the key being saved aside): the file
\* of the evicted key still exists unchanged, and a later getFromCache for
\* that key within the TTL returns the payload saved for it.
C13_EvictionKeepsDisk == [][C13_Step]_vars

\* the key stored first, evicted from the memory tier earlier, has just been
\* served from its file
C13_Witness ==
  /\ lru.op = "get"
  /\ lru.key = KeyNo(1)
  /\ lru.got # Null
  /\ KeyNo(IN_MEMORY_CACHE_SIZE + 1) \in DOMAIN memoryCache
  /\ KeyNo(3) \notin DOMAIN memoryCache
  /\ accessOrder[Len(accessOrder)] = KeyNo(1)

\* the number of places key k holds in the list
Places(order, k) == Cardinality({ i \in 1..Len(order) : order[i] = k })

C14_Step ==
  LET k == lru'.key
  IN  lru'.op = "get" =>
        IF k \in DOMAIN memoryCache /\ IsFresh(memoryCache[k].timestamp, now)
        THEN /\ lru'.got = memoryCache[k].data
             /\ memoryCache' = memoryCache
             /\ disk' = disk
        ELSE (k \in DOMAIN disk /\ IsFresh(disk[k].timestamp, now))
               => /\ lru'.got = disk[k].data
                  /\ k \in DOMAIN memoryCache'
                  /\ memoryCache'[k] = disk[k]
                  /\ accessOrder'[Len(accessOrder')] = k
                  /\ Places(accessOrder', k) = 1
                  /\ lru'.recency[Len(lru'.recency)] = k

\* C14: getFromCache serves from the memory tier when it holds a fresh entry,
\* without reading the disk; on a memory miss with a file within the TTL it
\* returns the payload of the file, and afterwards the memory tier holds that
\* entry and the key is the most recently used one.
C14_Promotion == [][C14_Step]_vars

\* the key stored second, evicted earlier, was looked up: its file was served
\* and the entry of the file is now the most recent one of the memory tier
C14_Witness ==
  /\ lru.op = "get"
  /\ lru.key = KeyNo(2)
  /\ lru.got = disk[KeyNo(2)].data
  /\ lru.got # LruEntry(KeyNo(2), 0).data
  /\ KeyNo(2) \in DOMAIN memoryCache
  /\ memoryCache[KeyNo(2)] = disk[KeyNo(2)]
  /\ accessOrder[Len(accessOrder)] = KeyNo(2)
  /\ Cardinality(DOMAIN memoryCache) = IN_MEMORY_CACHE_SIZE

\* url u was stored, a clearCache has begun since, and u was not saved again
ClearedSince(u) == lastSaved[u] # Null /\ ~lastSaved[u].noClear

C15_Step ==
  /\ (clr.pc # "idle" /\ clr'.pc = "idle")
     => /\ memoryCache' = EmptyMap
        /\ accessOrder' = <<>>
        /\ disk' = EmptyMap
  /\ \A c \in Callers :
       LET b == calls'[c]
       IN  (EndsLookup(c) /\ b.useCache /\ ClearedSince(b.url))
             => /\ b.cached = Null
                /\ b.pc = "md"

\* C15: when a clearCache that ran with no other cache operation in flight
\* completes, the memory tier, the LRU list and the disk tier are empty; and
\* getFromCache returns absent for every URL stored before the clear, until
\* the URL is saved again.
C15_ClearEmpties == [][C15_Step]_vars

\* both URLs were stored, a clearCache deleted the two files, and the lookup
\* of a later call missed
C15_Witness ==
  /\ \A u \in FetchedUrls : ClearedSince(u)
  /\ clr.pc = "idle"
  /\ calls[1].pc = "md"
  /\ calls[1].useCache
  /\ calls[1].tried = <<[strategy |-> "md", out |-> "pending"]>>
  /\ disk = EmptyMap

C16_Step ==
  /\ \A f \in DOMAIN disk :
       IsExpired(disk[f].timestamp, now) <=> ~IsFresh(disk[f].timestamp, now)
  /\ (sweep.pc = "loop" /\ sweep' # sweep)
     => \A f \in sweep.files :
          /\ (sweep'.pc = "unlink" /\ sweep'.file = f)
             => ~IsFresh(disk[f].timestamp, now)
          /\ f \notin sweep'.files => IsFresh(disk[f].timestamp, now)
  /\ (sweep.pc # "idle" /\ sweep' # sweep)
     => /\ \A f \in DOMAIN disk \ DOMAIN disk' :
             ~IsFresh(disk[f].timestamp, now)
        /\ \A f \in DOMAIN disk' : f \in DOMAIN disk /\ disk'[f] = disk[f]
  /\ (sweep.pc # "idle" /\ sweep'.pc = "idle")
     => \A f \in DOMAIN disk' : IsFresh(disk'[f].timestamp, now)

\* C16: a cleanupCache pass that runs with no concurrent cache operation
\* deletes a file exactly when the age of its entry fails the test of
\* getFromCache (age < TTL), the age equal to the TTL included: the pass never
\* deletes or changes an entry within the TTL, and when it completes every
\* file left is within the TTL.
C16_SweepExact == [][C16_Step]_vars

\* the pass is deleting an entry whose age is exactly the TTL while the other
\* entry, within the TTL, has been left in place
C16_Witness ==
  /\ sweep.pc = "unlink"
  /\ sweep.files = {sweep.file}
  /\ now - disk[sweep.file].timestamp = CACHE_TTL
  /\ \E f \in DOMAIN disk : f # sweep.file /\ IsFresh(disk[f].timestamp, now)

\* the browser strategy of caller c answers in this step
CrawleeAnswers(c) == calls[c].pc = "crawlee" /\ calls'[c].pc # "crawlee"

\* C17: whenever the page load times out or the navigation fails, the browser
\* strategy returns null, not a success:false result, and fetchUrl goes on
\* to the html strategy.
C17_NullOnTimeout ==
  [][\A c \in Callers :
       (CrawleeAnswers(c) /\ calls'[c].met \in {"timeout", "failedRequest"})
         => /\ calls'[c].tried[Len(calls[c].tried)].out = "null"
            /\ calls'[c].pc = "html"]_vars

\* the answer of the strategy caller c awaits, as this step leaves it
AnswerOf(c) == calls'[c].tried[Len(calls[c].tried)].out

C18_Step ==
  \A c \in Callers :
    /\ (calls[c].pc = "md" /\ calls'[c].pc # "md")
       => /\ net.md > calls[c].timeout
             => AnswerOf(c) = "null" /\ calls'[c].pc \in {"crawlee", "html"}
          /\ net.md < calls[c].timeout => AnswerOf(c) = "success"
    /\ (calls[c].pc = "html" /\ calls'[c].pc # "html")
       => /\ net.html > calls[c].timeout => AnswerOf(c) = "failed"
          /\ net.html < calls[c].timeout => AnswerOf(c) = "success"

\* C18: the timeout option of a fetchUrl call is the time bound of each of
\* its HTTP attempts: a server that answers with a page is heard when it
\* takes less than the option, and the attempt is aborted, counting as null
\* (direct strategy, the next strategy then running) or as failed (html
\* strategy), when it takes longer.
C18_TimeoutOption == [][C18_Step]_vars

\* the list key of site s holds no entry in either tier
NoListEntry(s, mem, dsk) ==
  /\ getCacheKey(ListName(s)) \notin DOMAIN mem
  /\ getCacheKey(ListName(s)) \notin DOMAIN dsk

\* C19: when the remote fetch of a discovery function fails, no entry is
\* written under its list key, and no call is served from the cache a list
\* that the failed fetch of the last call to fetch left there.
C19_FailuresNotCached ==
  [][\A s \in Sites :
       /\ (disc.pc = "fetch" /\ disc.site = s /\ disc'.pc = "done"
             /\ disc'.failed[s])
          => NoListEntry(s, memoryCache', disk')
       /\ (disc.pc = "idle" /\ disc'.pc = "done" /\ disc'.site = s)
          => ~disc.failed[s]]_vars

\* the lookup of the call missed: the call has invoked a strategy
Missed(call) == call.tried # <<>>

\* the call ended with a success:true result of its own chain
Fetched(call) ==
  /\ call.pc = "done"
  /\ Missed(call)
  /\ call.result.success

\* the chain of a call that missed: the direct strategy first, every answer
\* before the last one null or failed, and the last one a success or the
\* answer of the html strategy
RanChain(call) ==
  LET n == Len(call.tried)
  IN  /\ call.tried[1].strategy = "md"
      /\ \A i \in 1..(n - 1) : call.tried[i].out \in {"null", "failed"}
      /\ call.tried[n].out = "success" \/ call.tried[n].strategy = "html"
      /\ call.tried[n].out = "success" <=> call.result.success
      /\ call.result.success => call.result = call.answer

C20_Step ==
  \A c \in Callers :
    LET key == getCacheKey(calls'[c].url)
    IN  /\ calls'[c] # calls[c]
           => \A d \in Callers \ {c} : calls'[d] = calls[d]
        /\ (calls[c].pc # "done" /\ calls'[c].pc = "done" /\ Missed(calls'[c]))
           => /\ RanChain(calls'[c])
              /\ calls'[c].result.success => calls[c].pc = "writeFile"
        /\ (calls[c].pc # "writeFile" /\ calls'[c].pc = "writeFile")
           => /\ key \in DOMAIN memoryCache'
              /\ memoryCache'[key].data = calls'[c].answer
        /\ (calls[c].pc = "writeFile" /\ calls'[c].pc = "done")
           => /\ key \in DOMAIN disk'
              /\ disk'[key].data = JsonRoundTrip(calls'[c].result)

C20_End ==
  (\A c \in Callers : calls[c].pc = "done" /\ Missed(calls[c]))
    => \A key \in { getCacheKey(calls[c].url) : c \in Callers } :
         LET written == { calls[c].result : c \in { d \in Callers : Fetched(calls[d]) } }
         IN  IF written = {}
             THEN key \notin DOMAIN memoryCache /\ key \notin DOMAIN disk
             ELSE /\ key \in DOMAIN memoryCache
                  /\ memoryCache[key].data \in written
                  /\ key \in DOMAIN disk
                  /\ disk[key].data \in { JsonRoundTrip(r) : r \in written }

\* C20: two fetchUrl calls for one URL that both find it uncached run at the
\* same time without a step of one changing the other; each runs its chain
\* to its own first success or to the html answer, each success is written
\* to the memory tier and to the file by its own call, and once both have
\* ended each tier holds for the URL the result of one of the calls that
\* succeeded.
C20_LastWriteWins == [][C20_Step]_vars /\ []C20_End

\* both calls missed and succeeded with different results; the memory tier
\* holds the result of the second caller and the file that of the first
C20_Witness ==
  /\ Fetched(calls[1])
  /\ Fetched(calls[2])
  /\ calls[1].result # calls[2].result
  /\ memoryCache[getCacheKey(calls[2].url)].data = calls[2].result
  /\ disk[getCacheKey(calls[1].url)].data = JsonRoundTrip(calls[1].result)
  /\ JsonRoundTrip(calls[1].result) # JsonRoundTrip(calls[2].result)

\* the strategy attempts of a call that have not answered yet
InFlight(call) == { i \in 1..Len(call.tried) : call.tried[i].out = "pending" }

C21_Sequential ==
  \A c \in Callers :
    LET call == calls[c]
        n == Len(call.tried)
    IN  /\ n <= 3
        /\ \A i, j \in 1..n : i # j => call.tried[i].strategy # call.tried[j].strategy
        /\ InFlight(call) \subseteq {n}
        /\ InFlight(call) # {} <=> call.pc \in {"md", "crawlee", "html"}
        /\ call.pc = "done"
           => /\ InFlight(call) = {}
              /\ call.result.success <=> ~Exhausted(call)

\* C21: when every strategy attempt returns or times out, every fetchUrl
\* call ends, with a success:true result or, every strategy it tried having
\* answered null or failed, with a failure; it makes at most three attempts,
\* no strategy twice, and never has two attempts awaiting an answer.
C21_Terminates ==
  /\ []C21_Sequential
  /\ \A c \in Callers : (calls[c].pc # "idle") ~> (calls[c].pc = "done")

\* a call ends exhausted after three attempts
C21_Witness ==
  /\ calls[1].pc = "done"
  /\ Len(calls[1].tried) = 3
  /\ Exhausted(calls[1])
  /\ ~calls[1].result.success

\* a step of the fetchUrl call of caller c, the call as the step finds it or
\* begins it
CallOf(c) == IF calls[c].pc = "idle" THEN calls'[c] ELSE calls[c]

CallSteps(c) ==
  /\ calls'[c] # calls[c]
  /\ ~(calls[c].pc \notin {"idle", "done"} /\ calls'[c].pc = "idle")

C22_Step ==
  \A c \in Callers :
    (CallSteps(c) /\ ~CallOf(c).useCache)
      => /\ memoryCache' = memoryCache
         /\ accessOrder' = accessOrder
         /\ disk' = disk
         /\ calls[c].pc = "idle" => calls'[c].pc = "md"
         /\ calls'[c].cached = Null

\* C22: no step of a fetchUrl call with useCache false changes the memory
\* tier, the LRU order or the files, whatever its outcome; the call looks
\* nothing up and goes to the direct strategy at once, also when the cache
\* holds a valid entry for its URL.
C22_NoCacheUse == [][C22_Step]_vars

\* a call with useCache false has fetched the page anew while the memory
\* tier holds a valid entry for its URL
C22_Witness ==
  /\ calls[1].pc = "done"
  /\ ~calls[1].useCache
  /\ calls[1].result.success
  /\ calls[1].result.source # "cache"
  /\ getCacheKey(calls[1].url) \in DOMAIN memoryCache
  /\ IsFresh(memoryCache[getCacheKey(calls[1].url)].timestamp, now)
  /\ memoryCache[getCacheKey(calls[1].url)].data # calls[1].result

\* C23: when every strategy of a call has failed and the cache holds
\* content saved earlier for its URL, the call returns that content instead
\* of the error.
C23_CachedFallback ==
  \A c \in Callers :
    LET call == calls[c]
        key == getCacheKey(call.url)
    IN  (call.pc = "done" /\ Exhausted(call)
           /\ (key \in DOMAIN memoryCache \/ key \in DOMAIN disk))
          => call.result.success

\* C24: the TTL of the cache is 24 hours: a lookup that meets an entry
\* returns it only when its age is under 24 hours, and ends as a miss from
\* then on.
C24_TtlOneDay ==
  [][\A c \in Callers :
       MeetsEntry(c)
         => (calls'[c].cached # Null <=> now - MetEntry(c).timestamp < DAY_MS)]_vars

\* C25: a lookup for URL u returns only a payload that saveToCache stored
\* under u: the entry it returns, from either tier, is an entry of its own
\* URL, also when another URL of the run hashes to the same 32-bit value or
\* to its negative.
C25_OwnEntryOnly ==
  [][\A c \in Callers :
       (MeetsEntry(c) /\ calls'[c].cached # Null)
         => MetEntry(c).url = calls'[c].url]_vars

C27_Step ==
  /\ \A c \in Callers :
       (MeetsEntry(c) /\ calls'[c].cached # Null)
         => /\ disk' = disk
            /\ memoryCache'[getCacheKey(calls'[c].url)] = MetEntry(c)
            /\ calls'[c].cached = MetEntry(c).data
            /\ now - MetEntry(c).timestamp < CACHE_TTL
  /\ \A k \in DOMAIN memoryCache' :
       (k \notin DOMAIN memoryCache \/ memoryCache'[k] # memoryCache[k])
         => \E c \in Callers :
              \/ /\ calls[c].pc = "readFile"
                 /\ k \in DOMAIN disk
                 /\ memoryCache'[k] = disk[k]
              \/ /\ calls[c].pc \in {"md", "crawlee", "html"}
                 /\ calls'[c].pc = "writeFile"
                 /\ memoryCache'[k] = calls'[c].entry
                 /\ calls'[c].entry.timestamp = now
  /\ \A k \in DOMAIN disk' :
       (k \notin DOMAIN disk \/ disk'[k] # disk[k])
         => \E c \in Callers :
              /\ calls[c].pc = "writeFile"
              /\ disk'[k] = FileOf(calls[c].entry)

\* C27: reading never refreshes an entry. A lookup that returns an entry
\* leaves the files as they are and leaves in the memory tier the entry it
\* met, with the timestamp and the payload it had (for a promotion, those of
\* the file); an entry of a tier gets a new timestamp or payload only by a
\* saveToCache, which stamps it with the time of the save. So an entry is
\* served only while less than the TTL has passed since the save that made it.
C27_ReadsDoNotRefresh == [][C27_Step]_vars

\* a lookup has promoted a file saved on an earlier day and returned its
\* payload; the memory entry carries the timestamp of the file
C27_Witness ==
  /\ calls[1].pc = "done"
  /\ calls[1].cached # Null
  /\ getCacheKey(calls[1].url) \in DOMAIN memoryCache
  /\ getCacheKey(calls[1].url) \in DOMAIN disk
  /\ memoryCache[getCacheKey(calls[1].url)] = disk[getCacheKey(calls[1].url)]
  /\ disk[getCacheKey(calls[1].url)].timestamp < now
  /\ disk[getCacheKey(calls[1].url)].data.source = "html"

\* a step of getFromCache's or cleanupCache's unlink (the unlinks of
\* clearCache change clr) removes only files whose entry is expired
C28_Step ==
  \A k \in DOMAIN disk \ DOMAIN disk' :
    clr' = clr => IsExpired(disk[k].timestamp, now)

\* C28: expiry handling never deletes a fresh entry: every file removed by
\* the unlink of getFromCache or of cleanupCache holds, at the moment it is
\* removed, an entry whose age has reached the TTL, also when a saveToCache
\* for the key came between their read of the older entry and the unlink.
C28_FreshNeverDeleted == [][C28_Step]_vars

(***************************************************************************)
(* clearCache while calls of fetchUrl are in flight. The process has       *)
(* started a day after an earlier run saved a page at time 0, so the       *)
(* entries stored before the first clearCache are the ones stamped 0.      *)
(***************************************************************************)
InitClearing ==
  /\ urls \in UrlPools
  /\ now = DAY_MS
  /\ memoryCache = EmptyMap
  /\ accessOrder = <<>>
  /\ \E u \in urls :
       /\ disk = MapSet(EmptyMap, getCacheKey(u),
                   FileOf([data |-> Extracted(u, Html_text, "html"),
                           timestamp |-> 0, url |-> u]))
       /\ lastSaved = [ v \in UrlShapes |->
                          IF v = u
                          THEN [data |-> Extracted(u, Html_text, "html"),
                                at |-> 0, noClear |-> TRUE]
                          ELSE Null ]
  /\ active = {1}
  /\ calls = [ c \in Callers |-> IdleCall ]
  /\ net = NoNet
  /\ disc = IdleDiscover
  /\ sweep = IdleSweep
  /\ clr = IdleClear
  /\ pure = NoPure
  /\ lru = NoLru

NextClearing ==
  \/ \E c \in Callers, u \in UrlShapes : StartFetch(c, u, TRUE)
  \/ \E c \in Callers : ReadFileDone(c)
  \/ \E c \in Callers, o \in MdOutcomes : MdResponds(c, o)
  \/ \E c \in Callers, o \in CrawleeOutcomes : CrawleeResponds(c, o)
  \/ \E c \in Callers, o \in HtmlOutcomes : HtmlResponds(c, o)
  \/ \E c \in Callers : WriteFileDone(c)
  \/ \E c \in Callers : Return(c)
  \/ ClearStart
  \/ ClearReaddir
  \/ \E f \in DOMAIN disk : ClearUnlink(f)

SpecClearing == InitClearing /\ [][NextClearing]_vars

\* C29: once clearCache has completed, no entry stored before the clear began
\* is in the memory tier or is returned by a lookup, also when a getFromCache
\* for the URL was in flight while the clear ran: with the page of the
\* earlier run stored at time 0 and a clearCache begun since, a state in
\* which no clearCache is running has no memory entry and no file stamped 0
\* for a later lookup to return.
C29_ClearedStaysCleared ==
  \A u \in urls :
    (clr.pc = "idle" /\ ClearedSince(u) /\ lastSaved[u].at = 0)
      => /\ \A k \in DOMAIN memoryCache : memoryCache[k].timestamp # 0
         /\ \A k \in DOMAIN disk : disk[k].timestamp # 0

\* C30: tier coherence. Whenever no fetchUrl call is between its start and
\* its end, so that no getFromCache and no saveToCache is in flight, a key
\* held by both tiers has in the file the timestamp of the memory entry and
\* the serialized payload of the memory entry, whatever the interleaving of
\* the calls on that key was.
C30_TierCoherence ==
  (\A c \in Callers : calls[c].pc \in {"idle", "done"})
    => \A key \in DOMAIN memoryCache \cap DOMAIN disk :
         /\ disk[key].timestamp = memoryCache[key].timestamp
         /\ disk[key].data = JsonRoundTrip(memoryCache[key].data)

====
